---- MODULE Spec2Model ----
(***************************************************************************)
(* Verification model of trade-executor-cli: the RiskManager               *)
(* (src/src/risk/risk_manager.py), the SessionManager store                *)
(* (src/src/core/session_manager.py) and the TradingEngine                 *)
(* (src/src/core/trading_engine.py).                                       *)
(*                                                                         *)
(* Percentages and prices are integers (whole percents / whole dollars).   *)
(* Time is in minutes.  Python None is the empty set for optional scalars. *)
(***************************************************************************)
EXTENDS Integers, Sequences, FiniteSets, TLC

(***************************************************************************)
(* Configuration: TradingConfig defaults (src/src/core/config.py).         *)
(***************************************************************************)
position_sizes == {5, 10, 15, 20, 25}
max_daily_loss_percent == 10
max_position_loss_percent == 5
emergency_stop_loss_percent == 15
max_trades_per_day == 3
cooldown_between_trades_minutes == 30

(***************************************************************************)
(* Bounds of the model.                                                    *)
(***************************************************************************)
\* the wall clock advances in steps of ClockStep minutes, MaxTicks times
ClockStep == 15
MaxTicks == 3
\* update_daily_metrics has no upper limit on daily_trades; the model stops here
MaxDailyTrades == 4
\* trade results (percent) fed to update_daily_metrics
TradePnls == {-6, -4, 0, 5}

VARIABLES
    \* ---- RiskManager fields (risk_manager.py:16-21)
    daily_trades,
    daily_pnl,
    last_trade_time,            \* {} is None, {t} a timestamp
    emergency_stop_triggered,
    \* ---- environment of the RiskManager
    now,                        \* datetime.now(), minutes
    rm_op,                      \* the RiskManager operation that ran last
    rm_arg,                     \* its argument ({} when it has none)
    rm_ret,                     \* its return value ({} when it returns None)
    \* ---- TradingEngine fields (trading_engine.py:41-50)
    is_running,
    current_session,            \* {} is None, {s} the session id
    current_trade,              \* {} is None, {r} the trade dict
    latest_news_data,
    \* ---- SessionManager tables (session_manager.py:36-75)
    sessions,                   \* session id -> row
    trades,                     \* trade id -> row
    \* ---- coroutines: the callers of start/stop and the monitoring task
    thr,                        \* thread -> its position and locals
    news_pc,                    \* position of the news task
    made_trades,                \* number of trade dicts created so far
    risk_events,                \* risk event id -> row
    \* ---- direct calls of the SessionManager
    sm_op,                      \* the SessionManager operation that ran last
    sm_arg,                     \* the arguments of an end_session or update_trade call
    sm_ret,                     \* its return value
    ended_calls,                \* session id -> end_session calls on it since a trade of
                                \* it was last written (counted up to 2)
    close_failures,             \* trade id -> emergency closes of it that failed in a
                                \* row (counted up to 3, under SpecEscalation)
    \* ---- the ClaudeOrchestrator
    orch                        \* its fields is_running, current_trade, current_trade_id
                                \* and trade_history, and the position of its loop

riskVars == <<daily_trades, daily_pnl, last_trade_time, emergency_stop_triggered>>
riskEnv == <<now, rm_op, rm_arg, rm_ret>>

Max(a, b) == IF a >= b THEN a ELSE b

(***************************************************************************)
(* RiskManager: pure reads of the state.                                   *)
(***************************************************************************)
\* RiskManager._is_cooldown_active
is_cooldown_active ==
    IF last_trade_time = {} THEN FALSE
    ELSE \E t \in last_trade_time : now - t < cooldown_between_trades_minutes

\* a gate that forgets the emergency latch
can_start_new_trade_NoLatch ==
    IF daily_trades >= max_trades_per_day THEN FALSE
    ELSE IF last_trade_time # {}
            /\ \E t \in last_trade_time : now - t < cooldown_between_trades_minutes
         THEN FALSE
    ELSE IF daily_pnl <= -max_daily_loss_percent THEN FALSE
    ELSE TRUE

\* a gate whose trade limit is off by one
can_start_new_trade_OffByOne ==
    IF daily_trades > max_trades_per_day THEN FALSE
    ELSE IF last_trade_time # {}
            /\ \E t \in last_trade_time : now - t < cooldown_between_trades_minutes
         THEN FALSE
    ELSE IF daily_pnl <= -max_daily_loss_percent THEN FALSE
    ELSE IF emergency_stop_triggered THEN FALSE
    ELSE TRUE

\* RiskManager.can_start_new_trade: the four checks, first failure returns
can_start_new_trade ==
    IF daily_trades >= max_trades_per_day THEN FALSE
    ELSE IF last_trade_time # {}
            /\ \E t \in last_trade_time : now - t < cooldown_between_trades_minutes
         THEN FALSE
    ELSE IF daily_pnl <= -max_daily_loss_percent THEN FALSE
    ELSE IF emergency_stop_triggered THEN FALSE
    ELSE TRUE

\* RiskManager.get_risk_status
get_risk_status ==
    LET remaining_trades == Max(0, max_trades_per_day - daily_trades)
        remaining_loss_capacity == Max(0, max_daily_loss_percent + daily_pnl)
        overall_risk ==
            IF emergency_stop_triggered THEN "critical"
            ELSE IF remaining_trades = 0 \/ remaining_loss_capacity <= 1 THEN "high"
            ELSE IF remaining_trades <= 1 \/ remaining_loss_capacity <= 3 THEN "medium"
            ELSE "low"
    IN  [overall_risk_level |-> overall_risk,
         can_trade |-> (~emergency_stop_triggered) /\ remaining_trades > 0,
         remaining_trades |-> remaining_trades,
         remaining_loss_capacity_percent |-> remaining_loss_capacity,
         daily_pnl |-> daily_pnl,
         daily_trades |-> daily_trades,
         emergency_stop_active |-> emergency_stop_triggered,
         cooldown_active |-> is_cooldown_active]

(***************************************************************************)
(* RiskManager: operations.                                                *)
(***************************************************************************)
\* RiskManager.__init__
RiskInit ==
    /\ daily_trades = 0
    /\ daily_pnl = 0
    /\ last_trade_time = {}
    /\ emergency_stop_triggered = FALSE
    /\ now = 0
    /\ rm_op = "init"
    /\ rm_arg = {}
    /\ rm_ret = {}

\* datetime.now() moves on
Tick ==
    /\ now + ClockStep <= ClockStep * MaxTicks
    /\ now' = now + ClockStep
    /\ rm_op' = "tick"
    /\ rm_arg' = {}
    /\ rm_ret' = {}
    /\ UNCHANGED riskVars

\* the call of can_start_new_trade: reads only
call_can_start_new_trade ==
    /\ rm_op' = "can_start_new_trade"
    /\ rm_arg' = {}
    /\ rm_ret' = {can_start_new_trade}
    /\ UNCHANGED <<riskVars, now>>

\* the call of get_risk_status: reads only
call_get_risk_status ==
    /\ rm_op' = "get_risk_status"
    /\ rm_arg' = {}
    /\ rm_ret' = {get_risk_status.can_trade}
    /\ UNCHANGED <<riskVars, now>>

\* update_daily_metrics whose latch clears itself when the day recovers
update_daily_metrics_SelfClearing(trade_pnl) ==
    /\ daily_trades < MaxDailyTrades
    /\ daily_trades' = daily_trades + 1
    /\ daily_pnl' = daily_pnl + trade_pnl
    /\ last_trade_time' = {now}
    /\ emergency_stop_triggered' = (daily_pnl + trade_pnl <= -max_daily_loss_percent)
    /\ rm_op' = "update_daily_metrics"
    /\ rm_arg' = {trade_pnl}
    /\ rm_ret' = {}
    /\ UNCHANGED now

\* update_daily_metrics that compares with the limit strictly
update_daily_metrics_Strict(trade_pnl) ==
    /\ daily_trades < MaxDailyTrades
    /\ daily_trades' = daily_trades + 1
    /\ daily_pnl' = daily_pnl + trade_pnl
    /\ last_trade_time' = {now}
    /\ emergency_stop_triggered' =
          IF daily_pnl + trade_pnl < -max_daily_loss_percent
          THEN TRUE ELSE emergency_stop_triggered
    /\ rm_op' = "update_daily_metrics"
    /\ rm_arg' = {trade_pnl}
    /\ rm_ret' = {}
    /\ UNCHANGED now

\* RiskManager.update_daily_metrics, with the trigger_daily_stop it calls
update_daily_metrics(trade_pnl) ==
    /\ daily_trades < MaxDailyTrades
    /\ daily_trades' = daily_trades + 1
    /\ daily_pnl' = daily_pnl + trade_pnl
    /\ last_trade_time' = {now}
    /\ emergency_stop_triggered' =
          IF daily_pnl + trade_pnl <= -max_daily_loss_percent
          THEN TRUE ELSE emergency_stop_triggered
    /\ rm_op' = "update_daily_metrics"
    /\ rm_arg' = {trade_pnl}
    /\ rm_ret' = {}
    /\ UNCHANGED now

\* RiskManager.trigger_emergency_stop
trigger_emergency_stop ==
    /\ emergency_stop_triggered' = TRUE
    /\ rm_op' = "trigger_emergency_stop"
    /\ rm_arg' = {}
    /\ rm_ret' = {}
    /\ UNCHANGED <<daily_trades, daily_pnl, last_trade_time, now>>

\* RiskManager.trigger_daily_stop
trigger_daily_stop ==
    /\ emergency_stop_triggered' = TRUE
    /\ rm_op' = "trigger_daily_stop"
    /\ rm_arg' = {}
    /\ rm_ret' = {}
    /\ UNCHANGED <<daily_trades, daily_pnl, last_trade_time, now>>

\* a reset that keeps the time of the last trade
reset_daily_limits_KeepsCooldown ==
    /\ daily_trades' = 0
    /\ daily_pnl' = 0
    /\ emergency_stop_triggered' = FALSE
    /\ rm_op' = "reset_daily_limits"
    /\ rm_arg' = {}
    /\ rm_ret' = {}
    /\ UNCHANGED <<last_trade_time, now>>

\* RiskManager.reset_daily_limits
reset_daily_limits ==
    /\ daily_trades' = 0
    /\ daily_pnl' = 0
    /\ emergency_stop_triggered' = FALSE
    /\ last_trade_time' = {}
    /\ rm_op' = "reset_daily_limits"
    /\ rm_arg' = {}
    /\ rm_ret' = {}
    /\ UNCHANGED now

allRiskVars == <<riskVars, riskEnv>>

(***************************************************************************)
(* RiskManager: validation of a proposed trade (pure functions).           *)
(***************************************************************************)
\* hard limits written into the code
min_position_value == 10
max_position_size_percent == 25

\* str.lower on the side strings in use
Lower(side) ==
    CASE side = "Buy" -> "buy"
      [] side = "Sell" -> "sell"
      [] side = "Long" -> "long"
      [] side = "Short" -> "short"
      [] OTHER -> side

\* RiskManager._assess_position_risk
assess_position_risk(position_size_percent) ==
    IF position_size_percent <= 10 THEN "low"
    ELSE IF position_size_percent <= 20 THEN "medium"
    ELSE "high"

\* a validation that skips the bucket membership test
validate_position_size_for_AnyBucket(sizes, available_balance, position_size_percent) ==
    IF available_balance * position_size_percent < min_position_value * 100
       \/ position_size_percent > max_position_size_percent
    THEN [valid |-> FALSE, reason |-> "limits",
          position_value_x100 |-> 0, risk_level |-> "none"]
    ELSE [valid |-> TRUE, reason |-> "",
          position_value_x100 |-> available_balance * position_size_percent,
          risk_level |-> assess_position_risk(position_size_percent)]

\* a validation that skips the minimum position value
validate_position_size_for_NoFloor(sizes, available_balance, position_size_percent) ==
    IF position_size_percent \notin sizes
       \/ position_size_percent > max_position_size_percent
    THEN [valid |-> FALSE, reason |-> "limits",
          position_value_x100 |-> 0, risk_level |-> "none"]
    ELSE [valid |-> TRUE, reason |-> "",
          position_value_x100 |-> available_balance * position_size_percent,
          risk_level |-> assess_position_risk(position_size_percent)]

\* RiskManager.validate_position_size of a manager configured with the
\* buckets sizes; position_value is kept times 100
validate_position_size_for(sizes, available_balance, position_size_percent) ==
    IF position_size_percent \notin sizes
    THEN [valid |-> FALSE, reason |-> "not in allowed sizes",
          position_value_x100 |-> 0, risk_level |-> "none"]
    ELSE IF available_balance * position_size_percent < min_position_value * 100
    THEN [valid |-> FALSE, reason |-> "below minimum",
          position_value_x100 |-> 0, risk_level |-> "none"]
    ELSE IF position_size_percent > max_position_size_percent
    THEN [valid |-> FALSE, reason |-> "exceeds maximum",
          position_value_x100 |-> 0, risk_level |-> "none"]
    ELSE [valid |-> TRUE, reason |-> "",
          position_value_x100 |-> available_balance * position_size_percent,
          risk_level |-> assess_position_risk(position_size_percent)]

\* RiskManager.validate_position_size under the default configuration
validate_position_size(available_balance, position_size_percent) ==
    validate_position_size_for(position_sizes, available_balance, position_size_percent)

\* a stop-loss check that rejects the lower end 0.5% of the band
check_stop_loss_requirements_HalfOpen(entry_price, stop_loss, side) ==
    IF stop_loss = {} \/ stop_loss = {0}
    THEN [valid |-> FALSE, reason |-> "required", stop_loss_percent_x100 |-> 0]
    ELSE LET sl == CHOOSE v \in stop_loss : TRUE
             diff == IF Lower(side) = "buy" THEN entry_price - sl
                     ELSE sl - entry_price
         IN  IF diff * 100 > max_position_loss_percent * entry_price
                \/ diff * 200 <= entry_price
             THEN [valid |-> FALSE, reason |-> "out of band",
                   stop_loss_percent_x100 |-> 0]
             ELSE [valid |-> TRUE, reason |-> "",
                   stop_loss_percent_x100 |-> (diff * 10000) \div entry_price]

\* RiskManager.check_stop_loss_requirements; entry_price > 0, stop_loss is
\* {} (None) or {price}; the percent is kept times 100 (0.5% is 50)
check_stop_loss_requirements(entry_price, stop_loss, side) ==
    IF stop_loss = {} \/ stop_loss = {0}
    THEN [valid |-> FALSE, reason |-> "required", stop_loss_percent_x100 |-> 0]
    ELSE LET sl == CHOOSE v \in stop_loss : TRUE
             diff == IF Lower(side) = "buy" THEN entry_price - sl
                     ELSE sl - entry_price
         IN  IF diff * 100 > max_position_loss_percent * entry_price
             THEN [valid |-> FALSE, reason |-> "exceeds maximum",
                   stop_loss_percent_x100 |-> 0]
             ELSE IF diff * 200 < entry_price
             THEN [valid |-> FALSE, reason |-> "too tight",
                   stop_loss_percent_x100 |-> 0]
             ELSE [valid |-> TRUE, reason |-> "",
                   stop_loss_percent_x100 |-> (diff * 10000) \div entry_price]

\* the fixed warning and profit bands of monitor_position_risk (percent)
warning_loss_percent == 3
profit_taking_percent == 10

\* a ladder whose loss rungs are strict comparisons
position_action_Strict(emergency, max_loss, diff, entry_price) ==
    IF diff * 100 < -emergency * entry_price
    THEN [risk_level |-> "critical", action |-> "emergency_close", urgency |-> "immediate"]
    ELSE IF diff * 100 < -max_loss * entry_price
    THEN [risk_level |-> "high", action |-> "close", urgency |-> "high"]
    ELSE IF diff * 100 < -warning_loss_percent * entry_price
    THEN [risk_level |-> "medium", action |-> "monitor_closely", urgency |-> "medium"]
    ELSE IF diff * 100 >= profit_taking_percent * entry_price
    THEN [risk_level |-> "low", action |-> "consider_profit_taking", urgency |-> "low"]
    ELSE [risk_level |-> "low", action |-> "hold", urgency |-> "low"]

\* a ladder that tests the maximum position loss before the emergency limit
position_action_MaxFirst(emergency, max_loss, diff, entry_price) ==
    IF diff * 100 <= -max_loss * entry_price
    THEN [risk_level |-> "high", action |-> "close", urgency |-> "high"]
    ELSE IF diff * 100 <= -emergency * entry_price
    THEN [risk_level |-> "critical", action |-> "emergency_close", urgency |-> "immediate"]
    ELSE IF diff * 100 <= -warning_loss_percent * entry_price
    THEN [risk_level |-> "medium", action |-> "monitor_closely", urgency |-> "medium"]
    ELSE IF diff * 100 >= profit_taking_percent * entry_price
    THEN [risk_level |-> "low", action |-> "consider_profit_taking", urgency |-> "low"]
    ELSE [risk_level |-> "low", action |-> "hold", urgency |-> "low"]

\* the ladder of monitor_position_risk for a manager configured with the
\* limits emergency and max_loss; pnl_percent is diff / entry_price * 100
position_action(emergency, max_loss, diff, entry_price) ==
    IF diff * 100 <= -emergency * entry_price
    THEN [risk_level |-> "critical", action |-> "emergency_close", urgency |-> "immediate"]
    ELSE IF diff * 100 <= -max_loss * entry_price
    THEN [risk_level |-> "high", action |-> "close", urgency |-> "high"]
    ELSE IF diff * 100 <= -warning_loss_percent * entry_price
    THEN [risk_level |-> "medium", action |-> "monitor_closely", urgency |-> "medium"]
    ELSE IF diff * 100 >= profit_taking_percent * entry_price
    THEN [risk_level |-> "low", action |-> "consider_profit_taking", urgency |-> "low"]
    ELSE [risk_level |-> "low", action |-> "hold", urgency |-> "low"]

\* the directional price difference of monitor_position_risk
directional_diff(current_price, entry_price, side) ==
    IF Lower(side) = "buy" THEN current_price - entry_price
    ELSE entry_price - current_price

\* RiskManager.monitor_position_risk of a manager configured with the limits
\* emergency and max_loss
monitor_position_risk_for(emergency, max_loss, current_price, entry_price, side) ==
    IF entry_price = 0
    THEN [risk_level |-> "unknown", action |-> "hold", urgency |-> "low"]
    ELSE position_action(emergency, max_loss,
                         directional_diff(current_price, entry_price, side),
                         entry_price)

\* RiskManager.monitor_position_risk; entry_price 0 raises ZeroDivisionError,
\* which the function answers with hold
monitor_position_risk(current_price, entry_price, side) ==
    IF entry_price = 0
    THEN [risk_level |-> "unknown", action |-> "hold", urgency |-> "low"]
    ELSE position_action(emergency_stop_loss_percent, max_position_loss_percent,
                         IF Lower(side) = "buy" THEN current_price - entry_price
                         ELSE entry_price - current_price,
                         entry_price)

(***************************************************************************)
(* What the collaborators can answer.                                      *)
(***************************************************************************)
\* get_account_balance, after _extract_available_balance (dollars)
Balances == {5, 1000}

\* analyze_market_conditions; confidence in tenths, {n} a number and {} null
Analyses ==
    { [confidence |-> {6}, risk_level |-> "medium", volatility |-> "low", trend |-> "neutral"],
      [confidence |-> {7}, risk_level |-> "low", volatility |-> "high", trend |-> "bullish"] }

\* What the model answers to the decision prompt: text without a JSON
\* object ("text"), text whose braces do not hold valid JSON ("broken"), or
\* a JSON object; null is {}.  The last object lacks reasoning and
\* confidence.
DecisionResponses ==
    << [shape |-> "object",
        obj |-> [action |-> "buy", symbol |-> "BTCUSDT", position_size_percent |-> 10,
                 entry_price_target |-> 100, stop_loss |-> {97}, take_profit |-> {110},
                 confidence |-> 8, reasoning |-> "text"]],
       [shape |-> "object",
        obj |-> [action |-> "buy", symbol |-> "BTCUSDT", position_size_percent |-> 30,
                 entry_price_target |-> 100, stop_loss |-> {97}, take_profit |-> {110},
                 confidence |-> 8, reasoning |-> "text"]],
       [shape |-> "object",
        obj |-> [action |-> "buy", symbol |-> "BTCUSDT", position_size_percent |-> 10,
                 entry_price_target |-> 100, stop_loss |-> {}, take_profit |-> {110},
                 confidence |-> 8, reasoning |-> "text"]],
       [shape |-> "object",
        obj |-> [action |-> "hold", symbol |-> "BTCUSDT", position_size_percent |-> 0,
                 entry_price_target |-> 0, stop_loss |-> {}, take_profit |-> {},
                 confidence |-> 8, reasoning |-> "text"]],
       [shape |-> "text"],
       [shape |-> "broken"],
       [shape |-> "object",
        obj |-> [action |-> "buy", symbol |-> "BTCUSDT", position_size_percent |-> 10,
                 entry_price_target |-> 100, stop_loss |-> {97}, take_profit |-> {110}]] >>

\* BedrockClient._parse_trading_decision_response: the object between the
\* first '{' and the last '}' as json.loads returns it, the hold default
\* when there is none or it is not JSON
parse_trading_decision_response(response) ==
    IF response.shape = "object" THEN response.obj
    ELSE [action |-> "hold", reasoning |-> "text", confidence |-> 5]

\* make_trading_decision
Decisions ==
    [i \in 1..Len(DecisionResponses) |->
        parse_trading_decision_response(DecisionResponses[i])]

\* the keys TradingEngine subscripts in a decision it places a trade for,
\* and in an evaluation
DecisionKeys == {"action", "symbol", "position_size_percent", "entry_price_target",
                 "reasoning", "confidence"}
EvaluationKeys == {"action", "urgency"}

\* dict.get
Get(d, k) == IF k \in DOMAIN d THEN d[k] ELSE {}

\* What the model answers to the evaluation prompt.  The last two objects
\* lack urgency and action.
EvaluationResponses ==
    << [shape |-> "object", obj |-> [action |-> "hold", urgency |-> "low"]],
       [shape |-> "object", obj |-> [action |-> "close", urgency |-> "high"]],
       [shape |-> "object", obj |-> [action |-> "adjust_stop", urgency |-> "low",
                                     new_stop_loss |-> {98}]],
       [shape |-> "object", obj |-> [action |-> "adjust_stop", urgency |-> "low"]],
       [shape |-> "object", obj |-> [action |-> "adjust_target", urgency |-> "low",
                                     new_take_profit |-> {112}]],
       [shape |-> "text"],
       [shape |-> "object", obj |-> [action |-> "close"]],
       [shape |-> "object", obj |-> [urgency |-> "high"]] >>

\* BedrockClient._parse_position_evaluation_response
parse_position_evaluation_response(response) ==
    IF response.shape = "object" THEN response.obj
    ELSE [action |-> "hold", reasoning |-> "text", confidence |-> 5, urgency |-> "low"]

\* evaluate_position
Evaluations ==
    [i \in 1..Len(EvaluationResponses) |->
        parse_position_evaluation_response(EvaluationResponses[i])]

\* analysis.get(key, default)
GetOr(analysis, key, default) ==
    IF key \in DOMAIN analysis THEN analysis[key] ELSE default

\* TradingEngine._score_trading_opportunity before the clamp: the decimal sum
\* in tenths, {} when the arithmetic raises (a confidence that is null)
base_score(analysis) ==
    LET c == GetOr(analysis, "confidence", {5})
        risk_level == GetOr(analysis, "risk_level", "none")
        s1 == CHOOSE n \in c : TRUE
        s2 == IF risk_level = "low" THEN s1 + 1
              ELSE IF risk_level = "high" THEN s1 - 2 ELSE s1
        s3 == IF GetOr(analysis, "volatility", "none") = "high" THEN s2 - 1 ELSE s2
        s4 == IF GetOr(analysis, "trend", "none") \in {"bullish", "bearish"}
              THEN s3 + 1 ELSE s3
    IN  IF c = {} THEN {} ELSE {s4}

\* TradingEngine._score_trading_opportunity, in tenths
score_trading_opportunity(analysis) ==
    LET b == base_score(analysis)
        s4 == CHOOSE n \in b : TRUE
    IN  IF b = {} THEN 0                         \* except: return 0.0
        ELSE Max(0, IF s4 <= 10 THEN s4 ELSE 10)

\* "best_score > 0.6", in tenths; "available_balance < 10"
min_opportunity_score == 6
min_trading_balance == 10

\* BybitClient.calculate_position_size (spot), quantity in millionths
calculate_position_size(available_balance, percentage, price) ==
    (available_balance * percentage * 10000 * 2 + price) \div (2 * price)

(***************************************************************************)
(* Bounds of the engine model.                                             *)
(***************************************************************************)
\* sessions an engine or a caller of the store creates
MaxSessions == 2
\* rows the sessions table has room for
SessionRows == 3
MaxTrades == 2
\* trading pairs analysed by a scan
NumPairs == 2

SessionIds == 1..SessionRows
TradeIds == 1..MaxTrades
\* risk_events rows the model has room for
MaxEvents == 2
EventIds == 1..MaxEvents
Callers == {"c1", "c2"}
Threads == Callers \cup {"mon"}
Terminal == {"closed", "cancelled", "error"}

(***************************************************************************)
(* TradingEngine and SessionManager: state.                                *)
(***************************************************************************)
engineVars == <<is_running, current_session, current_trade, latest_news_data,
                sessions, trades,
                thr, news_pc, made_trades>>

storeVars == <<sessions, trades>>
fieldVars == <<is_running, current_session, current_trade, latest_news_data>>

storeEnv == <<risk_events, sm_op, sm_arg, sm_ret, ended_calls, close_failures, orch>>

NoSession == [status |-> "absent", emergency_stop |-> FALSE, total_trades |-> 0,
              total_pnl |-> 0, ended_at |-> {}, created_at |-> 0]
NoTrade == [status |-> "absent", session_id |-> 0, emergency_close |-> FALSE, pnl |-> 0,
            created_at |-> 0, stop_loss |-> {}, take_profit |-> {}]
NoEvent == [status |-> "absent", severity |-> "none", session_id |-> {}, trade_id |-> {},
            created_at |-> 0]

\* the status of an id without a row: never inserted, or deleted by the cleanup
Gone == {"absent", "deleted"}

\* the orchestrator after __init__ without a state file: not running, no
\* trade, an empty history.  pc is the position of start_24_7_trading, result
\* the answer the cycle in progress got, did what that cycle ran.
OrchInit ==
    [pc |-> "idle", is_running |-> FALSE, current_trade |-> {}, current_trade_id |-> {},
     trade_history |-> <<>>, result |-> <<>>, did |-> "none"]

\* the risk_events table is empty and no SessionManager call has been made
StoreEnvInit ==
    /\ risk_events = [e \in EventIds |-> NoEvent]
    /\ sm_op = "none"
    /\ sm_arg = {}
    /\ sm_ret = {}
    /\ ended_calls = [s \in SessionIds |-> 0]
    /\ close_failures = [t \in TradeIds |-> 0]
    /\ orch = OrchInit

\* a coroutine that is not running: no position, locals cleared.  sess is the
\* session its call works for, had the active trade a stop call found, failed
\* that its emergency close has failed.
IdleThread ==
    [pc |-> "idle", role |-> "none", bal |-> 0, dec |-> 0, new |-> {}, ok |-> FALSE,
     sess |-> {}, had |-> {}, failed |-> FALSE]

\* TradingEngine.__init__ over an empty database
EngineInit ==
    /\ is_running = FALSE
    /\ current_session = {}
    /\ current_trade = {}
    /\ latest_news_data = "empty"
    /\ sessions = [s \in SessionIds |-> NoSession]
    /\ trades = [t \in TradeIds |-> NoTrade]
    /\ thr = [th \in Threads |->
                IF th = "mon" THEN [IdleThread EXCEPT !.pc = "none", !.role = "mon"]
                ELSE IdleThread]
    /\ news_pc = "none"
    /\ made_trades = 0

\* the dict current_trade refers to
CT == CHOOSE r \in current_trade : TRUE

\* a thread is in the middle of synchronous code: nothing else is scheduled
Urgent == \E th \in Threads : thr[th].pc = "ret"

\* the event loop may resume th at its await
Runnable(th) == ~Urgent

\* a new call runs on the first caller that is free
FreeCaller(c) == thr[c].pc = "idle" /\ (c = "c2" => thr["c1"].pc # "idle")

\* the session th works for has been ended in the store
SessEnded(th) == \E s \in thr[th].sess : sessions[s].status = "ended"

\* Task.cancel(): a task that has not finished gets CancelledError at its
\* next resumption, wherever it is suspended; nothing of it runs before
Cancel(pc) == IF pc \in {"none", "dead"} THEN pc ELSE "cancelled"

\* th moves to position p, locals kept
Goto(th, p) == thr' = [thr EXCEPT ![th].pc = p]

\* th leaves the routine it is in (scan or close), locals cleared: the
\* monitoring task is back at the sleep of its loop, a start or stop call
\* runs its continuation next without suspension
Leave(th) == thr' = [thr EXCEPT ![th] =
                 [IdleThread EXCEPT !.pc = IF th = "mon" THEN "sleep" ELSE "ret",
                    !.role = thr[th].role,
                    !.sess = thr[th].sess, !.had = thr[th].had,
                    !.failed = thr[th].failed]]

(***************************************************************************)
(* SessionManager.  sqlite3 calls are synchronous: each is one atomic step *)
(* of its caller.  The database is taken to answer save_trade and          *)
(* update_trade; end_session may raise.  Of a trades row the columns       *)
(* status, session_id, emergency_close, pnl, created_at, stop_loss and    *)
(* take_profit are kept.                                                   *)
(***************************************************************************)
\* the id of the next session row
FreeSessions == {s \in SessionIds : sessions[s].status = "absent"}
NewSessionId == CHOOSE s \in FreeSessions : \A o \in FreeSessions : s <= o
\* fewer than MaxSessions sessions have been created
MayCreate == Cardinality(SessionIds \ FreeSessions) < MaxSessions

\* SessionManager.create_session
create_session(s) ==
    [sessions EXCEPT ![s] = [NoSession EXCEPT !.status = "active", !.created_at = now]]

\* SELECT COUNT(*), COALESCE(SUM(pnl), 0) FROM trades WHERE session_id = s
trade_rows(s) == {t \in TradeIds : trades[t].status \notin Gone /\ trades[t].session_id = s}
RECURSIVE sum_pnl(_)
sum_pnl(T) ==
    IF T = {} THEN 0
    ELSE LET t == CHOOSE x \in T : TRUE IN trades[t].pnl + sum_pnl(T \ {t})

\* an end_session that adds the aggregates to the stored totals
end_session_Accumulating(s, emergency) ==
    [sessions EXCEPT ![s] =
        IF @.status \in Gone THEN @
        ELSE [status |-> "ended", emergency_stop |-> emergency,
              total_trades |-> @.total_trades + Cardinality(trade_rows(s)),
              total_pnl |-> @.total_pnl + sum_pnl(trade_rows(s)),
              ended_at |-> {now}, created_at |-> @.created_at]]

\* an end_session whose aggregates run over the rows of every session
end_session_AllRows(s, emergency) ==
    [sessions EXCEPT ![s] =
        IF @.status \in Gone THEN @
        ELSE [status |-> "ended", emergency_stop |-> emergency,
              total_trades |-> Cardinality({t \in TradeIds : trades[t].status \notin Gone}),
              total_pnl |-> sum_pnl({t \in TradeIds : trades[t].status \notin Gone}),
              ended_at |-> {now}, created_at |-> @.created_at]]

\* SessionManager.end_session, the tables after it: the row (if there is
\* one) is marked ended at the current time with the flag of this call, and
\* the aggregates over its trades are stored
end_session(s, emergency) ==
    [sessions EXCEPT ![s] =
        IF @.status \in Gone THEN @
        ELSE [status |-> "ended", emergency_stop |-> emergency,
              total_trades |-> Cardinality(trade_rows(s)),
              total_pnl |-> sum_pnl(trade_rows(s)),
              ended_at |-> {now}, created_at |-> @.created_at]]

\* SessionManager.end_session, the dict it returns
end_session_result(s, emergency) ==
    [session_id |-> s, ended_at |-> now,
     total_trades |-> Cardinality(trade_rows(s)),
     total_pnl |-> sum_pnl(trade_rows(s)),
     emergency |-> emergency]

\* SessionManager.save_trade: INSERT of the dict; pnl takes its default
save_trade(r) ==
    [trades EXCEPT ![r.id] =
        [status |-> r.status, session_id |-> r.session_id, emergency_close |-> FALSE,
         pnl |-> 0, created_at |-> r.created_at,
         stop_loss |-> Get(r, "stop_loss"), take_profit |-> Get(r, "take_profit")]]

\* an update_trade that adds the pnl of the dict to the stored pnl
update_trade_AddsPnl(r) ==
    IF trades[r.id].status \in Gone THEN trades
    ELSE [trades EXCEPT ![r.id] =
            [@ EXCEPT !.status = r.status, !.emergency_close = r.emergency_close,
                      !.stop_loss = Get(r, "stop_loss"),
                      !.take_profit = Get(r, "take_profit"),
                      !.pnl = @ + (IF "pnl" \in DOMAIN r THEN r.pnl ELSE 0)]]

\* SessionManager.update_trade: UPDATE ... WHERE id = ?, nothing when no row
\* matches; trade.get("pnl", 0.0)
update_trade(r) ==
    IF trades[r.id].status \in Gone THEN trades
    ELSE [trades EXCEPT ![r.id] =
            [@ EXCEPT !.status = r.status, !.emergency_close = r.emergency_close,
                      !.stop_loss = Get(r, "stop_loss"),
                      !.take_profit = Get(r, "take_profit"),
                      !.pnl = IF "pnl" \in DOMAIN r THEN r.pnl ELSE 0]]

\* the calendar day of a time
MinutesPerDay == 1440
Day(t) == t \div MinutesPerDay

\* the id of the next risk_events row (AUTOINCREMENT: ids are not reused)
FreeEvents == {e \in EventIds : risk_events[e].status = "absent"}
NewEventId == CHOOSE e \in FreeEvents : \A o \in FreeEvents : e <= o

\* a log_risk_event that rewrites the rows of the same session
log_risk_event_Rewrites(severity, session_id, trade_id) ==
    [e \in EventIds |->
        IF e = NewEventId \/ (risk_events[e].status = "present"
                               /\ risk_events[e].session_id = session_id)
        THEN [status |-> "present", severity |-> severity, session_id |-> session_id,
              trade_id |-> trade_id, created_at |-> now]
        ELSE risk_events[e]]

\* SessionManager.log_risk_event: INSERT of one row
log_risk_event(severity, session_id, trade_id) ==
    [risk_events EXCEPT ![NewEventId] =
        [status |-> "present", severity |-> severity, session_id |-> session_id,
         trade_id |-> trade_id, created_at |-> now]]

\* SessionManager.cleanup_old_data: DELETE ... WHERE DATE(created_at) < cutoff,
\* on each of the three tables
Old(row, days_to_keep) ==
    row.status \notin Gone /\ Day(row.created_at) < Day(now) - days_to_keep
cleanup_sessions(days_to_keep) ==
    [s \in SessionIds |-> IF Old(sessions[s], days_to_keep)
                          THEN [NoSession EXCEPT !.status = "deleted"] ELSE sessions[s]]
cleanup_trades(days_to_keep) ==
    [t \in TradeIds |-> IF Old(trades[t], days_to_keep)
                        THEN [NoTrade EXCEPT !.status = "deleted"] ELSE trades[t]]
cleanup_risk_events(days_to_keep) ==
    [e \in EventIds |-> IF Old(risk_events[e], days_to_keep)
                        THEN [NoEvent EXCEPT !.status = "deleted"] ELSE risk_events[e]]
(***************************************************************************)
(* TradingEngine: start and stop.  The coroutines suspend only in exchange *)
(* calls and asyncio.sleep; the store and the decision provider are called *)
(* synchronously.  An action is the code between two suspensions;          *)
(* consecutive exchange calls between which the code touches only locals   *)
(* are one action.  An order reaches the exchange when place_order is      *)
(* issued; its answer is read one step later.                              *)
(***************************************************************************)
\* TradingEngine.start_trading_session up to its first suspension
start_trading_session(c) ==
    /\ ~Urgent
    /\ FreeCaller(c)
    /\ \/ \* already running, can_start_new_trade false, or create_session raised
          UNCHANGED <<fieldVars, storeVars, thr, news_pc, made_trades>>
       \/ /\ ~is_running
          /\ can_start_new_trade
          /\ FreeSessions # {}
          /\ LET s == NewSessionId IN
                /\ sessions' = create_session(s)
                /\ current_session' = {s}
                /\ thr' = [thr EXCEPT
                     ![c] = [IdleThread EXCEPT !.pc = "scan", !.role = "start",
                                               !.sess = {s}],
                     !["mon"] = [IdleThread EXCEPT !.pc = "new", !.role = "mon",
                                                   !.sess = {s}]]
          /\ is_running' = TRUE
          /\ news_pc' = "new"
          /\ UNCHANGED <<current_trade, latest_news_data, trades, made_trades>>

\* start_trading_session: the scan is over, return success
start_return(c) ==
    /\ thr[c].pc = "ret"
    /\ thr[c].role = "start"
    /\ thr' = [thr EXCEPT ![c] = IdleThread]
    /\ UNCHANGED <<fieldVars, storeVars, news_pc, made_trades>>

\* a stop that refuses whenever the engine holds no session
stop_refused_BySession == current_session = {}

\* the guard of stop_trading_session: `if not self.is_running`
stop_refused == ~is_running

\* TradingEngine.stop_trading_session up to its first suspension
stop_trading_session(c, emergency) ==
    /\ ~Urgent
    /\ FreeCaller(c)
    /\ IF stop_refused
       THEN /\ thr' = [thr EXCEPT ![c] = [IdleThread EXCEPT !.pc = "ret",
                                                            !.role = "stop_err"]]
            /\ UNCHANGED <<is_running, news_pc>>
       ELSE /\ is_running' = FALSE
            /\ news_pc' = Cancel(news_pc)
            /\ LET role == IF emergency THEN "stop_e" ELSE "stop_g"
                   active == current_trade # {} /\ CT.status = "active"
                   base == [IdleThread EXCEPT !.role = role, !.sess = current_session,
                                              !.had = IF active THEN {CT.id} ELSE {}]
                   mon == [IdleThread EXCEPT !.pc = Cancel(thr["mon"].pc), !.role = "mon",
                                             !.sess = thr["mon"].sess]
               IN  IF ~active
                   THEN thr' = [thr EXCEPT ![c] = [base EXCEPT !.pc = "ret"],
                                           !["mon"] = mon]
                   ELSE IF emergency
                   THEN \E ok \in BOOLEAN :      \* place_order is sent
                          thr' = [thr EXCEPT ![c] = [base EXCEPT !.pc = "emg_order",
                                                                 !.ok = ok],
                                             !["mon"] = mon]
                   ELSE thr' = [thr EXCEPT ![c] = [base EXCEPT !.pc = "gc_open"],
                                           !["mon"] = mon]
    /\ UNCHANGED <<current_session, current_trade, latest_news_data, storeVars,
                   made_trades>>

\* stop_trading_session returns {"error": "No active trading session"}
stop_return_error(c) ==
    /\ thr[c].pc = "ret"
    /\ thr[c].role = "stop_err"
    /\ thr' = [thr EXCEPT ![c] = IdleThread]
    /\ UNCHANGED <<fieldVars, storeVars, news_pc, made_trades>>

\* TradingEngine._emergency_close_position after place_order answered
emergency_close_position(c) ==
    /\ Runnable(c)
    /\ thr[c].pc = "emg_order"
    /\ IF ~thr[c].ok
       THEN /\ thr' = [thr EXCEPT ![c].pc = "ret", ![c].failed = TRUE]
            /\ UNCHANGED <<current_trade, trades>>
       ELSE /\ thr' = [thr EXCEPT ![c].pc = "ret", ![c].ok = FALSE]
            /\ IF current_trade = {}
               THEN UNCHANGED <<current_trade, trades>>
               ELSE LET r == [CT EXCEPT !.status = "closed", !.emergency_close = TRUE] IN
                      /\ current_trade' = {r}
                      /\ trades' = update_trade(r)
    /\ UNCHANGED <<is_running, current_session, latest_news_data, sessions,
                   news_pc, made_trades>>

\* stop_trading_session after the trade was handled: end the session, reset
stop_finish(c) ==
    /\ thr[c].pc = "ret"
    /\ thr[c].role \in {"stop_e", "stop_g"}
    /\ thr' = [thr EXCEPT ![c] = IdleThread]
    /\ \/ \* end_session raised: the reset is skipped, error result
          /\ current_session # {}
          /\ UNCHANGED <<current_session, current_trade, sessions>>
       \/ /\ sessions' = IF current_session = {} THEN sessions
                         ELSE end_session(CHOOSE s \in current_session : TRUE,
                                          thr[c].role = "stop_e")
          /\ current_session' = {}
          /\ current_trade' = {}
    /\ UNCHANGED <<is_running, latest_news_data, trades, news_pc, made_trades>>

(***************************************************************************)
(* The two tasks.                                                          *)
(***************************************************************************)
\* the event loop resumes a cancelled task: CancelledError ends it
cancel_delivered(task) ==
    /\ ~Urgent
    /\ IF task = "mon"
       THEN /\ thr["mon"].pc = "cancelled"
            /\ Goto("mon", "dead")
            /\ UNCHANGED news_pc
       ELSE /\ news_pc = "cancelled"
            /\ news_pc' = "dead"
            /\ UNCHANGED thr
    /\ UNCHANGED <<fieldVars, storeVars, made_trades>>

\* a news loop that a failed refresh ends, and the engine with it
news_loop_FailureStops ==
    /\ ~Urgent
    /\ news_pc \in {"new", "sleep"}
    /\ \/ /\ is_running
          /\ latest_news_data' = "neutral" /\ news_pc' = "sleep"
          /\ UNCHANGED <<is_running, thr>>
       \/ /\ is_running
          /\ news_pc' = "dead" /\ is_running' = FALSE
          /\ thr' = [thr EXCEPT !["mon"].pc = Cancel(@)]
          /\ UNCHANGED latest_news_data
       \/ /\ ~is_running
          /\ news_pc' = "dead"
          /\ UNCHANGED <<latest_news_data, is_running, thr>>
    /\ UNCHANGED <<current_session, current_trade, storeVars, made_trades>>

\* TradingEngine._news_loop with _fetch_and_analyze_news: the refresh, or a
\* refresh that raised (logged, the loop sleeps), or the end of the loop
news_loop ==
    /\ ~Urgent
    /\ news_pc \in {"new", "sleep"}
    /\ \/ is_running /\ latest_news_data' = "neutral" /\ news_pc' = "sleep"
       \/ is_running /\ news_pc' = "sleep" /\ UNCHANGED latest_news_data
       \/ ~is_running /\ news_pc' = "dead" /\ UNCHANGED latest_news_data
    /\ UNCHANGED <<is_running, current_session, current_trade, storeVars,
                   thr, made_trades>>

\* opening orders issued whose trade dict is not created yet
InFlight == Cardinality({th \in Threads : thr[th].pc = "scan_order" /\ thr[th].ok})

\* TradingEngine._monitoring_loop: top of the loop and the guard of
\* _monitor_current_trade, up to the answers of get_market_data and
\* get_current_positions
monitoring_loop ==
    /\ Runnable("mon")
    /\ thr["mon"].pc \in {"new", "sleep"}
    /\ IF ~is_running THEN Goto("mon", "dead")
       ELSE IF current_trade = {} \/ CT.status # "active" THEN Goto("mon", "sleep")
       ELSE Goto("mon", "mon_eval")
    /\ UNCHANGED <<fieldVars, storeVars, news_pc, made_trades>>

\* the answers evaluate_position can give, and those that adjust nothing
AnyEvaluation == 1..Len(Evaluations)
NoAdjustment ==
    {i \in AnyEvaluation :
        "action" \in DOMAIN Evaluations[i]
            => Evaluations[i].action \notin {"adjust_stop", "adjust_target"}}

\* a _monitor_current_trade whose failed call ends the monitoring task
monitor_current_trade_Propagates(I) ==
    /\ Runnable("mon")
    /\ thr["mon"].pc = "mon_eval"
    /\ \/ Goto("mon", "dead")           \* a call raised
       \/ \E i \in I :
            LET e == Evaluations[i] IN
            IF ~(EvaluationKeys \subseteq DOMAIN e) THEN Goto("mon", "sleep")  \* KeyError
            ELSE
            CASE e.action = "close" ->
                   IF current_trade = {} THEN Goto("mon", "sleep")
                   ELSE thr' = [thr EXCEPT !["mon"].pc = "gc_open", !["mon"].dec = i]
              [] e.action = "adjust_stop" ->
                   IF Get(e, "new_stop_loss") = {} \/ current_trade = {}
                   THEN Goto("mon", "sleep")
                   ELSE thr' = [thr EXCEPT !["mon"].pc = "mon_sl", !["mon"].dec = i,
                                           !["mon"].new = e.new_stop_loss]
              [] e.action = "adjust_target" ->
                   IF Get(e, "new_take_profit") = {} \/ current_trade = {}
                   THEN Goto("mon", "sleep")
                   ELSE thr' = [thr EXCEPT !["mon"].pc = "mon_tp", !["mon"].dec = i,
                                           !["mon"].new = e.new_take_profit]
              [] OTHER -> Goto("mon", "sleep")
    /\ UNCHANGED <<fieldVars, storeVars, news_pc, made_trades>>

\* _monitor_current_trade: the exchange has answered; evaluate_position
\* (an answer of I) and the dispatch on its action
monitor_current_trade(I) ==
    /\ Runnable("mon")
    /\ thr["mon"].pc = "mon_eval"
    /\ \/ Goto("mon", "sleep")          \* a call raised
       \/ \E i \in I :
            LET e == Evaluations[i] IN
            IF ~(EvaluationKeys \subseteq DOMAIN e) THEN Goto("mon", "sleep")  \* KeyError
            ELSE
            CASE e.action = "close" ->
                   IF current_trade = {} THEN Goto("mon", "sleep")
                   ELSE thr' = [thr EXCEPT !["mon"].pc = "gc_open", !["mon"].dec = i]
              [] e.action = "adjust_stop" ->
                   IF Get(e, "new_stop_loss") = {} \/ current_trade = {}
                   THEN Goto("mon", "sleep")
                   ELSE thr' = [thr EXCEPT !["mon"].pc = "mon_sl", !["mon"].dec = i,
                                           !["mon"].new = e.new_stop_loss]
              [] e.action = "adjust_target" ->
                   IF Get(e, "new_take_profit") = {} \/ current_trade = {}
                   THEN Goto("mon", "sleep")
                   ELSE thr' = [thr EXCEPT !["mon"].pc = "mon_tp", !["mon"].dec = i,
                                           !["mon"].new = e.new_take_profit]
              [] OTHER -> Goto("mon", "sleep")
    /\ UNCHANGED <<fieldVars, storeVars, news_pc, made_trades>>

\* an adjustment that changes the trade in memory and writes nothing
monitor_adjust_MemoryOnly ==
    /\ Runnable("mon")
    /\ thr["mon"].pc \in {"mon_sl", "mon_tp"}
    /\ thr' = [thr EXCEPT !["mon"].pc = "sleep", !["mon"].new = {}, !["mon"].dec = 0]
    /\ \/ UNCHANGED <<current_trade, trades>>     \* the call raised
       \/ /\ current_trade # {}
          /\ LET r == IF thr["mon"].pc = "mon_sl"
                      THEN [CT EXCEPT !.stop_loss = thr["mon"].new]
                      ELSE [CT EXCEPT !.take_profit = thr["mon"].new] IN
               /\ current_trade' = {r}
               /\ trades' = trades
    /\ UNCHANGED <<is_running, current_session, latest_news_data, sessions,
                   news_pc, made_trades>>

\* _adjust_stop_loss / _adjust_take_profit: set_trading_stop answered
monitor_adjust ==
    /\ Runnable("mon")
    /\ thr["mon"].pc \in {"mon_sl", "mon_tp"}
    /\ thr' = [thr EXCEPT !["mon"].pc = "sleep", !["mon"].new = {}, !["mon"].dec = 0]
    /\ \/ UNCHANGED <<current_trade, trades>>     \* the call raised
       \/ /\ current_trade # {}
          /\ LET r == IF thr["mon"].pc = "mon_sl"
                      THEN [CT EXCEPT !.stop_loss = thr["mon"].new]
                      ELSE [CT EXCEPT !.take_profit = thr["mon"].new] IN
               /\ current_trade' = {r}
               /\ trades' = update_trade(r)
    /\ UNCHANGED <<is_running, current_session, latest_news_data, sessions,
                   news_pc, made_trades>>

(***************************************************************************)
(* TradingEngine._close_position_gracefully and _start_cooldown.           *)
(***************************************************************************)
\* get_open_orders answered and the open orders cancelled: the opposing
\* market order is sent (TypeError when current_trade is None by now)
close_open_orders(th) ==
    /\ Runnable(th)
    /\ thr[th].pc = "gc_open"
    /\ \/ Leave(th)                     \* get_open_orders or cancel_order raised
       \/ IF current_trade = {} THEN Leave(th)
          ELSE \E ok \in BOOLEAN :
                 thr' = [thr EXCEPT ![th].pc = "gc_order", ![th].ok = ok]
    /\ UNCHANGED <<fieldVars, storeVars, news_pc, made_trades>>

\* place_order answered: mark closed, update_trade, then sleep the cooldown
close_position_gracefully(th) ==
    /\ Runnable(th)
    /\ thr[th].pc = "gc_order"
    /\ IF ~thr[th].ok \/ current_trade = {}
       THEN /\ Leave(th)
            /\ UNCHANGED <<current_trade, trades>>
       ELSE LET r == [CT EXCEPT !.status = "closed"] IN
              /\ current_trade' = {r}
              /\ trades' = update_trade(r)
              /\ thr' = [thr EXCEPT ![th].pc = "cooldown", ![th].ok = FALSE]
    /\ UNCHANGED <<is_running, current_session, latest_news_data, sessions,
                   news_pc, made_trades>>

\* _start_cooldown after the sleep: forget the trade, scan again
start_cooldown(th) ==
    /\ Runnable(th)
    /\ thr[th].pc = "cooldown"
    /\ current_trade' = {}
    /\ Goto(th, "scan")
    /\ UNCHANGED <<is_running, current_session, latest_news_data, storeVars,
                   news_pc, made_trades>>

(***************************************************************************)
(* The opportunity scan: _perform_initial_analysis,                        *)
(* _execute_trading_decision, _place_trade.                                *)
(***************************************************************************)
\* what the loop over the pairs can meet: per pair an analysis, or {} when
\* a call raised and the loop continues
PairOutcomes == [1..NumPairs -> {{}} \cup {{a} : a \in Analyses}]

\* best_score after the loop
BestScore(o) ==
    LET RECURSIVE best(_)
        best(i) == IF i = 0 THEN 0
                   ELSE IF o[i] = {} THEN best(i - 1)
                   ELSE Max(best(i - 1),
                            score_trading_opportunity(CHOOSE a \in o[i] : TRUE))
    IN  best(NumPairs)

\* the values best_score can have after the loop
BestScores == {BestScore(o) : o \in PairOutcomes}

\* _perform_initial_analysis and _execute_trading_decision: the balance, the
\* pairs, the threshold, the positions and the decision; a buy or sell
\* decision goes on to validate_order_parameters
perform_initial_analysis(th) ==
    /\ Runnable(th)
    /\ thr[th].pc = "scan"
    /\ \/ Leave(th)                             \* a call raised
       \/ \E b \in Balances, best_score \in BestScores, d \in 1..Len(Decisions) :
            IF \/ b < min_trading_balance
               \/ ~(best_score > min_opportunity_score)
               \/ "action" \notin DOMAIN Decisions[d]
               \/ Decisions[d].action \notin {"buy", "sell"}
            THEN Leave(th)
            ELSE thr' = [thr EXCEPT ![th].pc = "scan_instr", ![th].bal = b,
                                    ![th].dec = d]
    /\ UNCHANGED <<fieldVars, storeVars, news_pc, made_trades>>

\* _place_trade: validate_order_parameters answered; place_order is sent
place_trade_order(th) ==
    /\ Runnable(th)
    /\ thr[th].pc = "scan_instr"
    /\ LET d == Decisions[thr[th].dec]
           qty == IF {"symbol", "position_size_percent", "entry_price_target"}
                        \subseteq DOMAIN d
                  THEN calculate_position_size(thr[th].bal, d.position_size_percent,
                                               d.entry_price_target)
                  ELSE 0                           \* KeyError before any order
       IN  \/ Leave(th)                            \* a call or a subscript raised
           \/ /\ qty <= 0
              /\ Leave(th)
           \/ /\ qty > 0
              /\ made_trades + InFlight < MaxTrades
              /\ \/ thr' = [thr EXCEPT ![th].pc = "scan_order", ![th].ok = FALSE,
                                       ![th].dec = 0, ![th].bal = 0]   \* refused
                 \/ thr' = [thr EXCEPT ![th].pc = "scan_order", ![th].ok = TRUE,
                                       ![th].bal = 0]
    /\ UNCHANGED <<fieldVars, storeVars, news_pc, made_trades>>

\* _place_trade: place_order answered; the trade dict (KeyError when the
\* decision has no reasoning or confidence) and save_trade
place_trade(th) ==
    /\ Runnable(th)
    /\ thr[th].pc = "scan_order"
    /\ Leave(th)
    /\ IF \/ ~thr[th].ok
          \/ current_session = {}
          \/ ~({"reasoning", "confidence"} \subseteq DOMAIN Decisions[thr[th].dec])
       THEN UNCHANGED <<current_trade, trades, made_trades>>
       ELSE LET d == Decisions[thr[th].dec]
                r == [id |-> made_trades + 1,
                      session_id |-> CHOOSE s \in current_session : TRUE,
                      side |-> IF d.action = "buy" THEN "Buy" ELSE "Sell",
                      status |-> "active",
                      stop_loss |-> Get(d, "stop_loss"),
                      take_profit |-> Get(d, "take_profit"),
                      emergency_close |-> FALSE,
                      created_at |-> now]
            IN  /\ current_trade' = {r}
                /\ made_trades' = made_trades + 1
                /\ trades' = save_trade(r)
    /\ UNCHANGED <<is_running, current_session, latest_news_data, sessions,
                   news_pc>>

(***************************************************************************)
(* The engine with two callers whose start and stop calls overlap, its     *)
(* tasks, store and exchange; the position evaluations adjust nothing.     *)
(***************************************************************************)
vars == <<allRiskVars, engineVars, storeEnv>>

Init == RiskInit /\ EngineInit /\ StoreEnvInit

Next ==
    \/ \E c \in Callers : MayCreate /\ start_trading_session(c) /\ UNCHANGED <<allRiskVars, storeEnv>>
    \/ \E c \in Callers : start_return(c) /\ UNCHANGED <<allRiskVars, storeEnv>>
    \/ \E c \in Callers, e \in BOOLEAN : stop_trading_session(c, e) /\ UNCHANGED <<allRiskVars, storeEnv>>
    \/ \E c \in Callers : stop_return_error(c) /\ UNCHANGED <<allRiskVars, storeEnv>>
    \/ \E c \in Callers : emergency_close_position(c) /\ UNCHANGED <<allRiskVars, storeEnv>>
    \/ \E c \in Callers : stop_finish(c) /\ UNCHANGED <<allRiskVars, storeEnv>>
    \/ \E t \in {"mon", "news"} : cancel_delivered(t) /\ UNCHANGED <<allRiskVars, storeEnv>>
    \/ news_loop /\ UNCHANGED <<allRiskVars, storeEnv>>
    \/ monitoring_loop /\ UNCHANGED <<allRiskVars, storeEnv>>
    \/ monitor_current_trade(NoAdjustment) /\ UNCHANGED <<allRiskVars, storeEnv>>
    \/ \E th \in Threads : close_open_orders(th) /\ UNCHANGED <<allRiskVars, storeEnv>>
    \/ \E th \in Threads : close_position_gracefully(th) /\ UNCHANGED <<allRiskVars, storeEnv>>
    \/ \E th \in Threads : start_cooldown(th) /\ UNCHANGED <<allRiskVars, storeEnv>>
    \/ \E th \in Threads : perform_initial_analysis(th) /\ UNCHANGED <<allRiskVars, storeEnv>>
    \/ \E th \in Threads : place_trade_order(th) /\ UNCHANGED <<allRiskVars, storeEnv>>
    \/ \E th \in Threads : place_trade(th) /\ UNCHANGED <<allRiskVars, storeEnv>>

Spec == Init /\ [][Next]_vars

\* the RiskManager driven on its own: the engine stays as constructed
RiskNext ==
    \/ Tick /\ UNCHANGED <<engineVars, storeEnv>>
    \/ call_can_start_new_trade /\ UNCHANGED <<engineVars, storeEnv>>
    \/ call_get_risk_status /\ UNCHANGED <<engineVars, storeEnv>>
    \/ \E p \in TradePnls : update_daily_metrics(p) /\ UNCHANGED <<engineVars, storeEnv>>
    \/ trigger_emergency_stop /\ UNCHANGED <<engineVars, storeEnv>>
    \/ trigger_daily_stop /\ UNCHANGED <<engineVars, storeEnv>>
    \/ reset_daily_limits /\ UNCHANGED <<engineVars, storeEnv>>

SpecRisk == Init /\ [][RiskNext]_vars

(***************************************************************************)
(* The validation functions of the RiskManager called on their own: each   *)
(* action is one call, recorded in rm_op, rm_arg and rm_ret.               *)
(***************************************************************************)
\* prices, sides and percents offered to the calls
MaxPercent == 31
EntryPrices == {100, 200}
Prices == {0} \cup (80..110) \cup (170..220)
StopLosses == {{}} \cup {{v} : v \in Prices}
Sides == {"buy", "Buy", "sell", "long"}
CallBalances == {0, 39, 40, 100, 101, 1000}
\* configured bucket sets: the default one and one with a bucket above 25
BucketSets == {position_sizes, {10, 30}}

\* the call of check_stop_loss_requirements
call_check_stop_loss_requirements ==
    \E e \in EntryPrices, sl \in StopLosses, sd \in Sides :
        /\ rm_op' = "check_stop_loss_requirements"
        /\ rm_arg' = {[entry_price |-> e, stop_loss |-> sl, side |-> sd]}
        /\ rm_ret' = {check_stop_loss_requirements(e, sl, sd)}
        /\ UNCHANGED <<riskVars, now>>

\* the call of monitor_position_risk
call_monitor_position_risk ==
    \E c \in Prices, e \in EntryPrices, sd \in Sides :
        /\ rm_op' = "monitor_position_risk"
        /\ rm_arg' = {[current_price |-> c, entry_price |-> e, side |-> sd]}
        /\ rm_ret' = {monitor_position_risk(c, e, sd)}
        /\ UNCHANGED <<riskVars, now>>

\* the call of validate_position_size on a manager configured with sizes
call_validate_position_size ==
    \E sizes \in BucketSets, b \in CallBalances, p \in 0..MaxPercent :
        /\ rm_op' = "validate_position_size"
        /\ rm_arg' = {[sizes |-> sizes, available_balance |-> b,
                       position_size_percent |-> p]}
        /\ rm_ret' = {validate_position_size_for(sizes, b, p)}
        /\ UNCHANGED <<riskVars, now>>

CallsNext ==
    \/ call_check_stop_loss_requirements /\ UNCHANGED <<engineVars, storeEnv>>
    \/ call_monitor_position_risk /\ UNCHANGED <<engineVars, storeEnv>>
    \/ call_validate_position_size /\ UNCHANGED <<engineVars, storeEnv>>

SpecCalls == Init /\ [][CallsNext]_vars

(***************************************************************************)
(* The SessionManager called directly: every history of create_session,    *)
(* save_trade, update_trade and end_session calls.                         *)
(***************************************************************************)
StorePnls == {-3, 5}

\* the next trade id a caller supplies
FreeTrades == {t \in TradeIds : trades[t].status = "absent"}
NewTradeId == CHOOSE t \in FreeTrades : \A o \in FreeTrades : t <= o

sm_create_session ==
    /\ MayCreate
    /\ sessions' = create_session(NewSessionId)
    /\ sm_op' = "create_session"
    /\ sm_arg' = {}
    /\ sm_ret' = {}
    /\ UNCHANGED <<trades, ended_calls>>

sm_save_trade ==
    \E s \in SessionIds :
        /\ sessions[s].status \notin Gone
        /\ FreeTrades # {}
        /\ trades' = save_trade([id |-> NewTradeId, session_id |-> s, status |-> "pending",
                                created_at |-> now])
        /\ ended_calls' = [ended_calls EXCEPT ![s] = 0]
        /\ sm_op' = "save_trade"
        /\ sm_arg' = {}
        /\ sm_ret' = {}
        /\ UNCHANGED sessions

sm_update_trade ==
    \E t \in TradeIds, p \in StorePnls :
        /\ trades[t].status \notin Gone
        /\ trades' = update_trade([id |-> t, status |-> "closed", pnl |-> p,
                                   emergency_close |-> FALSE])
        /\ ended_calls' = [ended_calls EXCEPT ![trades[t].session_id] = 0]
        /\ sm_op' = "update_trade"
        /\ sm_arg' = {[id |-> t, status |-> "closed", pnl |-> p,
                       emergency_close |-> FALSE]}
        /\ sm_ret' = {}
        /\ UNCHANGED sessions

sm_end_session(emergency) ==
    \E s \in SessionIds :
        /\ sessions[s].status \notin Gone
        /\ sessions' = end_session(s, emergency)
        /\ ended_calls' = [ended_calls EXCEPT ![s] = IF @ < 2 THEN @ + 1 ELSE @]
        /\ sm_op' = "end_session"
        /\ sm_arg' = {[session_id |-> s, emergency |-> emergency]}
        /\ sm_ret' = {end_session_result(s, emergency)}
        /\ UNCHANGED trades

\* every history of calls that end sessions in the ordinary way
StoreNext ==
    \/ sm_create_session /\ UNCHANGED <<allRiskVars, fieldVars, thr, news_pc, made_trades, risk_events, close_failures, orch>>
    \/ sm_save_trade /\ UNCHANGED <<allRiskVars, fieldVars, thr, news_pc, made_trades, risk_events, close_failures, orch>>
    \/ sm_update_trade /\ UNCHANGED <<allRiskVars, fieldVars, thr, news_pc, made_trades, risk_events, close_failures, orch>>
    \/ sm_end_session(FALSE) /\ UNCHANGED <<allRiskVars, fieldVars, thr, news_pc, made_trades, risk_events, close_failures, orch>>

SpecStore == Init /\ [][StoreNext]_vars

\* the same calls with either flag and with a step of the clock between them
StoreClockNext ==
    \/ now = 0 /\ Tick /\ UNCHANGED <<engineVars, storeEnv>>
    \/ sm_create_session /\ UNCHANGED <<allRiskVars, fieldVars, thr, news_pc, made_trades, risk_events, close_failures, orch>>
    \/ sm_save_trade /\ UNCHANGED <<allRiskVars, fieldVars, thr, news_pc, made_trades, risk_events, close_failures, orch>>
    \/ sm_update_trade /\ UNCHANGED <<allRiskVars, fieldVars, thr, news_pc, made_trades, risk_events, close_failures, orch>>
    \/ \E e \in BOOLEAN :
          sm_end_session(e) /\ UNCHANGED <<allRiskVars, fieldVars, thr, news_pc, made_trades, risk_events, close_failures, orch>>

SpecStoreClock == Init /\ [][StoreClockNext]_vars

(***************************************************************************)
(* The risk_events table: log_risk_event and cleanup_old_data, with        *)
(* sessions being created, over several days.                              *)
(***************************************************************************)
MaxDays == 1
Severities == {"warning", "critical"}
EventSessions == {{}, {1}}
\* days_to_keep passed to cleanup_old_data
RetentionDays == {0, 1}

\* midnight passes
NextDay ==
    /\ Day(now) < MaxDays
    /\ now' = now + MinutesPerDay
    /\ UNCHANGED <<riskVars, rm_op, rm_arg, rm_ret>>

sm_log_risk_event ==
    \E sev \in Severities, s \in EventSessions :
        /\ FreeEvents # {}
        /\ risk_events' = log_risk_event(sev, s, {})
        /\ sm_op' = "log_risk_event"
        /\ sm_arg' = {}
        /\ sm_ret' = {}
        /\ UNCHANGED <<sessions, trades, ended_calls>>

sm_cleanup_old_data ==
    \E d \in RetentionDays :
        /\ sessions' = cleanup_sessions(d)
        /\ trades' = cleanup_trades(d)
        /\ risk_events' = cleanup_risk_events(d)
        /\ sm_op' = "cleanup_old_data"
        /\ sm_arg' = {}
        /\ sm_ret' = {}
        /\ UNCHANGED ended_calls

EventsNext ==
    \/ NextDay /\ UNCHANGED <<engineVars, storeEnv>>
    \/ sm_log_risk_event /\ UNCHANGED <<allRiskVars, fieldVars, thr, news_pc, made_trades, close_failures, orch>>
    \/ sm_cleanup_old_data /\ UNCHANGED <<allRiskVars, fieldVars, thr, news_pc, made_trades, close_failures, orch>>
    \/ sm_create_session /\ UNCHANGED <<allRiskVars, fieldVars, thr, news_pc, made_trades, risk_events, close_failures, orch>>

SpecEvents == Init /\ [][EventsNext]_vars

(***************************************************************************)
(* The engine driven by one caller: start and stop calls do not overlap;   *)
(* every position evaluation is offered.                                   *)
(***************************************************************************)
OneCaller == {"c1"}
OneThreads == OneCaller \cup {"mon"}

OneNext ==
    \/ \E c \in OneCaller : MayCreate /\ start_trading_session(c) /\ UNCHANGED <<allRiskVars, storeEnv>>
    \/ \E c \in OneCaller : start_return(c) /\ UNCHANGED <<allRiskVars, storeEnv>>
    \/ \E c \in OneCaller, e \in BOOLEAN : stop_trading_session(c, e) /\ UNCHANGED <<allRiskVars, storeEnv>>
    \/ \E c \in OneCaller : stop_return_error(c) /\ UNCHANGED <<allRiskVars, storeEnv>>
    \/ \E c \in OneCaller : emergency_close_position(c) /\ UNCHANGED <<allRiskVars, storeEnv>>
    \/ \E c \in OneCaller : stop_finish(c) /\ UNCHANGED <<allRiskVars, storeEnv>>
    \/ \E t \in {"mon", "news"} : cancel_delivered(t) /\ UNCHANGED <<allRiskVars, storeEnv>>
    \/ news_loop /\ UNCHANGED <<allRiskVars, storeEnv>>
    \/ monitoring_loop /\ UNCHANGED <<allRiskVars, storeEnv>>
    \/ monitor_current_trade(AnyEvaluation) /\ UNCHANGED <<allRiskVars, storeEnv>>
    \/ monitor_adjust /\ UNCHANGED <<allRiskVars, storeEnv>>
    \/ \E th \in OneThreads : close_open_orders(th) /\ UNCHANGED <<allRiskVars, storeEnv>>
    \/ \E th \in OneThreads : close_position_gracefully(th) /\ UNCHANGED <<allRiskVars, storeEnv>>
    \/ \E th \in OneThreads : start_cooldown(th) /\ UNCHANGED <<allRiskVars, storeEnv>>
    \/ \E th \in OneThreads : perform_initial_analysis(th) /\ UNCHANGED <<allRiskVars, storeEnv>>
    \/ \E th \in OneThreads : place_trade_order(th) /\ UNCHANGED <<allRiskVars, storeEnv>>
    \/ \E th \in OneThreads : place_trade(th) /\ UNCHANGED <<allRiskVars, storeEnv>>

SpecOne == Init /\ [][OneNext]_vars

\* one caller, position evaluations that adjust nothing
SteadyNext ==
    \/ \E c \in OneCaller : MayCreate /\ start_trading_session(c) /\ UNCHANGED <<allRiskVars, storeEnv>>
    \/ \E c \in OneCaller : start_return(c) /\ UNCHANGED <<allRiskVars, storeEnv>>
    \/ \E c \in OneCaller, e \in BOOLEAN : stop_trading_session(c, e) /\ UNCHANGED <<allRiskVars, storeEnv>>
    \/ \E c \in OneCaller : stop_return_error(c) /\ UNCHANGED <<allRiskVars, storeEnv>>
    \/ \E c \in OneCaller : emergency_close_position(c) /\ UNCHANGED <<allRiskVars, storeEnv>>
    \/ \E c \in OneCaller : stop_finish(c) /\ UNCHANGED <<allRiskVars, storeEnv>>
    \/ \E t \in {"mon", "news"} : cancel_delivered(t) /\ UNCHANGED <<allRiskVars, storeEnv>>
    \/ news_loop /\ UNCHANGED <<allRiskVars, storeEnv>>
    \/ monitoring_loop /\ UNCHANGED <<allRiskVars, storeEnv>>
    \/ monitor_current_trade(NoAdjustment) /\ UNCHANGED <<allRiskVars, storeEnv>>
    \/ \E th \in OneThreads : close_open_orders(th) /\ UNCHANGED <<allRiskVars, storeEnv>>
    \/ \E th \in OneThreads : close_position_gracefully(th) /\ UNCHANGED <<allRiskVars, storeEnv>>
    \/ \E th \in OneThreads : start_cooldown(th) /\ UNCHANGED <<allRiskVars, storeEnv>>
    \/ \E th \in OneThreads : perform_initial_analysis(th) /\ UNCHANGED <<allRiskVars, storeEnv>>
    \/ \E th \in OneThreads : place_trade_order(th) /\ UNCHANGED <<allRiskVars, storeEnv>>
    \/ \E th \in OneThreads : place_trade(th) /\ UNCHANGED <<allRiskVars, storeEnv>>

SpecSteady == Init /\ [][SteadyNext]_vars

\* one caller, every position evaluation, the first session of an engine
\* over an empty database
FirstNext ==
    \/ \E c \in OneCaller :
          /\ FreeSessions = SessionIds
          /\ start_trading_session(c) /\ UNCHANGED <<allRiskVars, storeEnv>>
    \/ \E c \in OneCaller : start_return(c) /\ UNCHANGED <<allRiskVars, storeEnv>>
    \/ \E c \in OneCaller, e \in BOOLEAN : stop_trading_session(c, e) /\ UNCHANGED <<allRiskVars, storeEnv>>
    \/ \E c \in OneCaller : stop_return_error(c) /\ UNCHANGED <<allRiskVars, storeEnv>>
    \/ \E c \in OneCaller : emergency_close_position(c) /\ UNCHANGED <<allRiskVars, storeEnv>>
    \/ \E c \in OneCaller : stop_finish(c) /\ UNCHANGED <<allRiskVars, storeEnv>>
    \/ \E t \in {"mon", "news"} : cancel_delivered(t) /\ UNCHANGED <<allRiskVars, storeEnv>>
    \/ news_loop /\ UNCHANGED <<allRiskVars, storeEnv>>
    \/ monitoring_loop /\ UNCHANGED <<allRiskVars, storeEnv>>
    \/ monitor_current_trade(AnyEvaluation) /\ UNCHANGED <<allRiskVars, storeEnv>>
    \/ monitor_adjust /\ UNCHANGED <<allRiskVars, storeEnv>>
    \/ \E th \in OneThreads : close_open_orders(th) /\ UNCHANGED <<allRiskVars, storeEnv>>
    \/ \E th \in OneThreads : close_position_gracefully(th) /\ UNCHANGED <<allRiskVars, storeEnv>>
    \/ \E th \in OneThreads : start_cooldown(th) /\ UNCHANGED <<allRiskVars, storeEnv>>
    \/ \E th \in OneThreads : perform_initial_analysis(th) /\ UNCHANGED <<allRiskVars, storeEnv>>
    \/ \E th \in OneThreads : place_trade_order(th) /\ UNCHANGED <<allRiskVars, storeEnv>>
    \/ \E th \in OneThreads : place_trade(th) /\ UNCHANGED <<allRiskVars, storeEnv>>

SpecFirst == Init /\ [][FirstNext]_vars

\* the event loop resumes a task whose sleep is over, and synchronous code
\* runs to its return
FirstFairness ==
    /\ WF_vars(monitoring_loop /\ UNCHANGED <<allRiskVars, storeEnv>>)
    /\ WF_vars(\E c \in OneCaller :
                 /\ start_return(c) \/ stop_return_error(c) \/ stop_finish(c)
                 /\ UNCHANGED <<allRiskVars, storeEnv>>)

SpecFirstFair == SpecFirst /\ FirstFairness

(***************************************************************************)
(* The engine driven by one caller that stops with emergency=True, with    *)
(* room for SessionRows sessions; the emergency closes of a trade that     *)
(* failed in a row are counted.                                            *)
(***************************************************************************)
\* _emergency_close_position after place_order answered, counting: a failed
\* attempt adds one to the count of the trade, a successful one clears it
emergency_close_counted(c) ==
    /\ emergency_close_position(c)
    /\ close_failures' =
          [t \in TradeIds |->
              IF t \notin thr[c].had THEN close_failures[t]
              ELSE IF thr[c].ok THEN 0
              ELSE IF close_failures[t] < 3 THEN close_failures[t] + 1 ELSE 3]
    /\ UNCHANGED <<allRiskVars, risk_events, sm_op, sm_arg, sm_ret, ended_calls, orch>>

EscalationNext ==
    \/ \E c \in OneCaller : start_trading_session(c) /\ UNCHANGED <<allRiskVars, storeEnv>>
    \/ \E c \in OneCaller : start_return(c) /\ UNCHANGED <<allRiskVars, storeEnv>>
    \/ \E c \in OneCaller : stop_trading_session(c, TRUE) /\ UNCHANGED <<allRiskVars, storeEnv>>
    \/ \E c \in OneCaller : stop_return_error(c) /\ UNCHANGED <<allRiskVars, storeEnv>>
    \/ \E c \in OneCaller : emergency_close_counted(c)
    \/ \E c \in OneCaller : stop_finish(c) /\ UNCHANGED <<allRiskVars, storeEnv>>
    \/ \E t \in {"mon", "news"} : cancel_delivered(t) /\ UNCHANGED <<allRiskVars, storeEnv>>
    \/ news_loop /\ UNCHANGED <<allRiskVars, storeEnv>>
    \/ monitoring_loop /\ UNCHANGED <<allRiskVars, storeEnv>>
    \/ monitor_current_trade(NoAdjustment) /\ UNCHANGED <<allRiskVars, storeEnv>>
    \/ \E th \in OneThreads : close_open_orders(th) /\ UNCHANGED <<allRiskVars, storeEnv>>
    \/ \E th \in OneThreads : close_position_gracefully(th) /\ UNCHANGED <<allRiskVars, storeEnv>>
    \/ \E th \in OneThreads : start_cooldown(th) /\ UNCHANGED <<allRiskVars, storeEnv>>
    \/ \E th \in OneThreads : perform_initial_analysis(th) /\ UNCHANGED <<allRiskVars, storeEnv>>
    \/ \E th \in OneThreads : place_trade_order(th) /\ UNCHANGED <<allRiskVars, storeEnv>>
    \/ \E th \in OneThreads : place_trade(th) /\ UNCHANGED <<allRiskVars, storeEnv>>

SpecEscalation == Init /\ [][EscalationNext]_vars

(***************************************************************************)
(* Properties of the engine.                                               *)
(***************************************************************************)
\* steps of a thread, named by what reaches the exchange or the store
PlacesOpeningOrder(th) ==
    thr[th].pc = "scan_instr" /\ thr'[th].pc = "scan_order" /\ thr'[th].ok
PlacesClosingOrder(th) ==
    \/ thr[th].pc = "gc_open" /\ thr'[th].pc = "gc_order" /\ thr'[th].ok
    \/ thr[th].pc = "idle" /\ thr'[th].pc = "emg_order" /\ thr'[th].ok
WritesTrade(th) ==
    thr[th].pc \in {"scan_order", "gc_order", "emg_order", "mon_sl", "mon_tp"}
    /\ thr'[th].pc # thr[th].pc /\ trades' # trades
\* stop_trading_session gets past end_session and the reset: it returns success
StopReturnsSuccess(c) ==
    /\ thr[c].pc = "ret" /\ thr[c].role \in {"stop_e", "stop_g"}
    /\ thr'[c].pc = "idle" /\ current_session' = {}
\* the step in which session s is ended in the store
EndsSession(s) == sessions[s].status = "active" /\ sessions'[s].status = "ended"
Open == {"pending", "active"}

\* C1: in every reachable state each session has at most one trade whose
\* status is pending or active, in the trades table and in memory.
C1_OneOpenTradePerSession ==
    \A s \in SessionIds :
        Cardinality({t \in TradeIds : trades[t].session_id = s
                                      /\ trades[t].status \in Open}) <= 1

\* C2: an opening order is placed only on a scan for which
\* can_start_new_trade was asked (the scan of start), and only for a decision
\* that validate_position_size and check_stop_loss_requirements accept.
C2_OrderOnlyAfterRiskChecks ==
    [][\A th \in Threads :
         PlacesOpeningOrder(th) =>
             LET d == Decisions[thr[th].dec] IN
               /\ thr[th].role = "start"
               /\ validate_position_size(thr[th].bal, d.position_size_percent).valid
               /\ check_stop_loss_requirements(d.entry_price_target, d.stop_loss,
                                                d.action).valid]_vars

\* C3: a trade whose status is closed, cancelled or error keeps that status,
\* in the table and in memory, and no closing order is placed for it.
C3_TerminalIsFinal ==
    [][/\ \A t \in TradeIds :
            trades[t].status \in Terminal => trades'[t].status = trades[t].status
       /\ (current_trade # {} /\ CT.status \in Terminal /\ current_trade' # {})
            => \A r \in current_trade' : r.id = CT.id => r.status = CT.status
       /\ \A th \in Threads :
            PlacesClosingOrder(th) => current_trade # {} /\ CT.status \notin Terminal]_vars

\* C4: when stop_trading_session returns success for a session that had an
\* active trade, that trade is closed, the session is ended in the store, no
\* trade of the session is pending or active, current_session and
\* current_trade are cleared; and a stop call places no opening order.
C4_StopResolvesTrade ==
    [][\A c \in Callers :
         /\ (StopReturnsSuccess(c) /\ thr[c].had # {}) =>
               /\ \A t \in thr[c].had : trades'[t].status = "closed"
               /\ \A s \in thr[c].sess :
                     /\ sessions'[s].status = "ended"
                     /\ \A t \in TradeIds :
                           trades'[t].session_id = s => trades'[t].status \notin Open
               /\ current_session' = {} /\ current_trade' = {}
         /\ thr[c].role \in {"stop_e", "stop_g"} => ~PlacesOpeningOrder(c)]_vars

\* C5: when end_session is called the monitoring task and the news task of
\* the session have finished, and a thread whose session has been ended
\* places no order and writes no trade.
C5_TasksFinishedBeforeEnd ==
    [][/\ \A s \in SessionIds :
            EndsSession(s) =>
                /\ thr["mon"].sess = {s} => thr["mon"].pc = "dead"
                /\ ~is_running => news_pc = "dead"
       /\ \A th \in Threads :
            SessEnded(th) =>
                ~PlacesOpeningOrder(th) /\ ~PlacesClosingOrder(th) /\ ~WritesTrade(th)]_vars

\* C6: after a failed emergency close, while the trade is still active, the
\* engine keeps tracking the trade and does not end its session.
C6_FailedEmergencyCloseKept ==
    [][\A c \in Callers :
         (thr[c].failed /\ thr[c].pc = "ret" /\ thr'[c].pc = "idle") =>
             \A t \in thr[c].had :
                 trades[t].status = "active" =>
                     /\ \E r \in current_trade' : r.id = t /\ r.status = "active"
                     /\ \A s \in thr[c].sess : sessions'[s].status # "ended"]_vars

(***************************************************************************)
(* Properties of the RiskManager (checked under SpecRisk).                 *)
(***************************************************************************)
\* a step in which RiskManager operation op ran
RiskStep(op) == rm_op' = op /\ allRiskVars' # allRiskVars

\* C7: once emergency_stop_triggered is set, every RiskManager operation
\* other than reset_daily_limits leaves it set, and can_start_new_trade
\* is false after it.
C7_LatchUntilReset ==
    [][ (emergency_stop_triggered /\ rm_op' # "reset_daily_limits")
          => (emergency_stop_triggered' /\ ~can_start_new_trade') ]_vars

\* the latch is the only check that refuses: trades were recorded, the
\* cooldown has elapsed, the day is above the loss limit, and the gate was asked
C7_Witness ==
    /\ emergency_stop_triggered
    /\ rm_op = "can_start_new_trade"
    /\ rm_ret = {FALSE}
    /\ daily_trades > 0
    /\ daily_trades < max_trades_per_day
    /\ daily_pnl > -max_daily_loss_percent
    /\ ~is_cooldown_active

\* C8: can_start_new_trade is true exactly when daily_trades is below
\* max_trades_per_day, there is no last_trade_time or the cooldown has
\* elapsed since it, daily_pnl is above -max_daily_loss_percent and the
\* emergency stop is not triggered.
C8_GateIff ==
    can_start_new_trade <=>
        /\ daily_trades < max_trades_per_day
        /\ \/ last_trade_time = {}
           \/ \A t \in last_trade_time : now - t >= cooldown_between_trades_minutes
        /\ daily_pnl > -max_daily_loss_percent
        /\ ~emergency_stop_triggered

\* the trade limit alone closes the gate: the limit is reached exactly
C8_Witness ==
    /\ daily_trades = max_trades_per_day
    /\ ~is_cooldown_active
    /\ daily_pnl > -max_daily_loss_percent
    /\ ~emergency_stop_triggered
    /\ ~can_start_new_trade

\* C9: update_daily_metrics(trade_pnl) adds one to daily_trades and trade_pnl
\* to daily_pnl and sets the emergency stop when the sum is at or below
\* -max_daily_loss_percent; so daily_pnl at or below the limit always comes
\* with the emergency stop set.
C9_UpdateLatches ==
    /\ [][ RiskStep("update_daily_metrics") =>
             \E p \in rm_arg' :
                /\ daily_trades' = daily_trades + 1
                /\ daily_pnl' = daily_pnl + p
                /\ (daily_pnl' <= -max_daily_loss_percent => emergency_stop_triggered')
         ]_vars
    /\ [](daily_pnl <= -max_daily_loss_percent => emergency_stop_triggered)

\* the accumulated loss lands exactly on the limit
C9_Witness ==
    /\ rm_op = "update_daily_metrics"
    /\ daily_pnl = -max_daily_loss_percent
    /\ emergency_stop_triggered

\* C10: get_risk_status reports can_trade exactly when can_start_new_trade
\* returns true.
C10_StatusConsistent ==
    get_risk_status.can_trade <=> can_start_new_trade

\* C17: a step of reset_daily_limits ends with daily_trades = 0,
\* daily_pnl = 0, the latch clear and no last trade time, so that
\* can_start_new_trade is true; no other RiskManager operation clears the
\* latch, lowers daily_trades or forgets the last trade time.
C17_OnlyResetResets ==
    [][ /\ rm_op' = "reset_daily_limits" =>
              /\ daily_trades' = 0
              /\ daily_pnl' = 0
              /\ ~emergency_stop_triggered'
              /\ last_trade_time' = {}
              /\ (max_trades_per_day > 0 /\ max_daily_loss_percent > 0)
                    => can_start_new_trade'
        /\ rm_op' # "reset_daily_limits" =>
              /\ emergency_stop_triggered => emergency_stop_triggered'
              /\ daily_trades' >= daily_trades
              /\ last_trade_time # {} => last_trade_time' # {} ]_vars

\* a reset was performed after the clock had advanced
C17_Witness ==
    /\ rm_op = "reset_daily_limits"
    /\ now > 0
    /\ daily_trades = 0
    /\ daily_pnl = 0
    /\ ~emergency_stop_triggered
    /\ last_trade_time = {}

(***************************************************************************)
(* Properties of the validation functions (under SpecCalls).               *)
(***************************************************************************)
\* the stop-loss percent of a call, times its entry price over 100: the
\* distance from entry to stop in the losing direction of the side
StopDistance(a) ==
    LET sl == CHOOSE v \in a.stop_loss : TRUE IN
    IF Lower(a.side) = "buy" THEN a.entry_price - sl ELSE sl - a.entry_price
\* that percent lies in [0.5, max_position_loss_percent]
InStopBand(d, entry_price) ==
    d * 200 >= entry_price /\ d * 100 <= max_position_loss_percent * entry_price

\* C11: check_stop_loss_requirements (sides buy and sell, in any case)
\* answers valid=false when the stop loss is missing and when the
\* directional stop-loss percent is below 0.5 or above
\* max_position_loss_percent, and valid=true with that percent when it lies
\* in [0.5, max_position_loss_percent].
C11_StopLossBands ==
    rm_op = "check_stop_loss_requirements" =>
        \A a \in rm_arg, r \in rm_ret :
            Lower(a.side) \in {"buy", "sell"} =>
                IF a.stop_loss = {} THEN ~r.valid
                ELSE /\ r.valid <=> InStopBand(StopDistance(a), a.entry_price)
                     /\ r.valid => r.stop_loss_percent_x100
                                     = (StopDistance(a) * 10000) \div a.entry_price

\* a sell at 200 with the stop at 201 (0.5%) was accepted
C11_Witness ==
    /\ rm_op = "check_stop_loss_requirements"
    /\ \E a \in rm_arg, r \in rm_ret :
          /\ a.side = "sell" /\ a.entry_price = 200 /\ a.stop_loss = {201}
          /\ r.valid /\ r.stop_loss_percent_x100 = 50

\* C12: for side "long" with the stop loss below the entry price the percent
\* is (entry - stop) / entry * 100, and the call is valid when that percent
\* lies in [0.5, max_position_loss_percent] (entry 100, stop 97: 3.0, valid).
C12_LongStopBelowEntry ==
    rm_op = "check_stop_loss_requirements" =>
        \A a \in rm_arg, r \in rm_ret :
            (a.side = "long" /\ a.stop_loss # {}
               /\ (\A v \in a.stop_loss : 0 < v /\ v < a.entry_price)) =>
                LET d == a.entry_price - (CHOOSE v \in a.stop_loss : TRUE) IN
                  /\ r.valid <=> InStopBand(d, a.entry_price)
                  /\ r.valid => r.stop_loss_percent_x100 = (d * 10000) \div a.entry_price

\* the percent gained by a position, times its entry price over 100
PnlDistance(a) ==
    IF Lower(a.side) = "buy" THEN a.current_price - a.entry_price
    ELSE a.entry_price - a.current_price

\* C13: monitor_position_risk (sides buy and sell) maps the directional PnL
\* percent to one action by the ladder, in this order: at or below
\* -emergency_stop_loss_percent emergency_close, at or below
\* -max_position_loss_percent close, at or below -3 monitor_closely, at or
\* above +10 consider_profit_taking, otherwise hold.
C13_ActionLadder ==
    rm_op = "monitor_position_risk" =>
        \A a \in rm_arg, r \in rm_ret :
            (Lower(a.side) \in {"buy", "sell"} /\ a.entry_price > 0) =>
                LET pnl == PnlDistance(a) * 100
                    e == a.entry_price
                IN  r = IF pnl <= -emergency_stop_loss_percent * e
                        THEN [risk_level |-> "critical", action |-> "emergency_close",
                              urgency |-> "immediate"]
                        ELSE IF pnl <= -max_position_loss_percent * e
                        THEN [risk_level |-> "high", action |-> "close",
                              urgency |-> "high"]
                        ELSE IF pnl <= -3 * e
                        THEN [risk_level |-> "medium", action |-> "monitor_closely",
                              urgency |-> "medium"]
                        ELSE IF pnl >= 10 * e
                        THEN [risk_level |-> "low", action |-> "consider_profit_taking",
                              urgency |-> "low"]
                        ELSE [risk_level |-> "low", action |-> "hold", urgency |-> "low"]

\* a buy from 100 now at 97 (exactly -3%) is to be monitored closely
C13_Witness ==
    /\ rm_op = "monitor_position_risk"
    /\ \E a \in rm_arg, r \in rm_ret :
          /\ a.side = "buy" /\ a.entry_price = 100 /\ a.current_price = 97
          /\ r.action = "monitor_closely"

\* C14: for side "long" a price below the entry is a loss: never
\* consider_profit_taking, and emergency_close once the fall reaches
\* emergency_stop_loss_percent (entry 100, current 80).
C14_LongFallIsLoss ==
    rm_op = "monitor_position_risk" =>
        \A a \in rm_arg, r \in rm_ret :
            (a.side = "long" /\ a.entry_price > 0 /\ a.current_price < a.entry_price) =>
                /\ r.action # "consider_profit_taking"
                /\ (a.entry_price - a.current_price) * 100
                      >= emergency_stop_loss_percent * a.entry_price
                   => r.action = "emergency_close"

\* C15: validate_position_size answers valid=false for every percent that
\* is no member of the configured position_sizes, whatever the balance.
C15_BucketMembership ==
    rm_op = "validate_position_size" =>
        \A a \in rm_arg, r \in rm_ret :
            a.position_size_percent \notin a.sizes => ~r.valid

\* 12% of 1000 under the default buckets was rejected
C15_Witness ==
    /\ rm_op = "validate_position_size"
    /\ \E a \in rm_arg, r \in rm_ret :
          /\ a.sizes = position_sizes /\ a.position_size_percent = 12
          /\ a.available_balance = 1000 /\ ~r.valid

\* C16 as stated: valid=true only if the notional value exceeds $10 and the
\* percent does not exceed 25, whatever the configured buckets.
C16_ExceedsMinimum ==
    rm_op = "validate_position_size" =>
        \A a \in rm_arg, r \in rm_ret :
            r.valid => /\ a.available_balance * a.position_size_percent > 10 * 100
                       /\ a.position_size_percent <= 25

\* C16 amended: valid=true only if the notional value is at least $10 and
\* the percent does not exceed 25, whatever the configured buckets.
C16_AtLeastMinimum ==
    rm_op = "validate_position_size" =>
        \A a \in rm_arg, r \in rm_ret :
            r.valid => /\ a.available_balance * a.position_size_percent >= 10 * 100
                       /\ a.position_size_percent <= 25

\* the configured bucket 30 was rejected for a balance of 1000
C16_Witness ==
    /\ rm_op = "validate_position_size"
    /\ \E a \in rm_arg, r \in rm_ret :
          /\ 30 \in a.sizes /\ a.position_size_percent = 30
          /\ a.available_balance = 1000 /\ ~r.valid

(***************************************************************************)
(* Properties of the SessionManager (under SpecStore and SpecStoreClock).  *)
(***************************************************************************)
\* this step is an end_session call on session s
EndSessionCall(s) ==
    /\ sm_op' = "end_session"
    /\ \E a \in sm_arg' : a.session_id = s
    /\ <<sessions, storeEnv>>' # <<sessions, storeEnv>>

\* count and pnl sum of the trades rows 1..k that session s owns
RECURSIVE OwnedCount(_, _)
OwnedCount(s, k) ==
    IF k = 0 THEN 0
    ELSE OwnedCount(s, k - 1)
         + (IF trades[k].status \notin Gone /\ trades[k].session_id = s THEN 1 ELSE 0)
RECURSIVE OwnedPnl(_, _)
OwnedPnl(s, k) ==
    IF k = 0 THEN 0
    ELSE OwnedPnl(s, k - 1)
         + (IF trades[k].status \notin Gone /\ trades[k].session_id = s
            THEN trades[k].pnl ELSE 0)

\* C18: an end_session call on a session that was ended before, with no
\* trade of it written since, leaves the stored total_trades and total_pnl
\* as they were and returns those totals.
C18_EndSessionIdempotent ==
    [][\A s \in SessionIds :
          (EndSessionCall(s) /\ ended_calls[s] >= 1) =>
              /\ sessions'[s].total_trades = sessions[s].total_trades
              /\ sessions'[s].total_pnl = sessions[s].total_pnl
              /\ \A r \in sm_ret' : /\ r.total_trades = sessions[s].total_trades
                                    /\ r.total_pnl = sessions[s].total_pnl]_vars

\* a session with two trades and a nonzero pnl sum was ended twice in a row
C18_Witness ==
    /\ sm_op = "end_session"
    /\ \E a \in sm_arg :
          /\ ended_calls[a.session_id] = 2
          /\ sessions[a.session_id].total_trades = 2
          /\ sessions[a.session_id].total_pnl # 0

\* C19: the total_trades and total_pnl an end_session call stores and
\* returns are the count and the pnl sum of the trades rows of that session
\* at the call, after every history of save_trade and update_trade calls.
C19_TotalsAreAggregates ==
    [][\A s \in SessionIds :
          EndSessionCall(s) =>
              /\ sessions'[s].total_trades = OwnedCount(s, MaxTrades)
              /\ sessions'[s].total_pnl = OwnedPnl(s, MaxTrades)
              /\ \A r \in sm_ret' : /\ r.total_trades = OwnedCount(s, MaxTrades)
                                    /\ r.total_pnl = OwnedPnl(s, MaxTrades)]_vars

\* a session owning one of two trades was ended: one trade, pnl 5, while
\* the other session's trade carries -3
C19_Witness ==
    /\ sm_op = "end_session"
    /\ \E r \in sm_ret :
          /\ r.total_trades = 1 /\ r.total_pnl = 5
          /\ sessions[r.session_id].total_trades = 1
          /\ sessions[r.session_id].total_pnl = 5
          /\ \E t \in TradeIds : /\ trades[t].status \notin Gone
                                 /\ trades[t].session_id # r.session_id
                                 /\ trades[t].pnl = -3

C21_UpdateTradeIdempotent ==
    [][(sm_op = "update_trade" /\ sm_op' = "update_trade" /\ sm_arg' = sm_arg)
          => trades' = trades]_vars

\* a trade was updated to closed with a loss: the table a second call with
\* the same dict starts from and ends in
C21_Witness ==
    /\ sm_op = "update_trade"
    /\ \E r \in sm_arg :
          /\ r.status = "closed" /\ r.pnl = -3
          /\ trades[r.id].status = "closed" /\ trades[r.id].pnl = -3
          /\ update_trade(r) = trades

(***************************************************************************)
(* Properties of the risk_events table (under SpecEvents).                 *)
(***************************************************************************)
\* C29: risk events are append-only: a log_risk_event call adds one row and
\* leaves every other row as it is, no step changes the columns of a row,
\* and only cleanup_old_data removes rows.
C29_RiskEventsAppendOnly ==
    [][/\ \A e \in EventIds :
            risk_events[e].status = "present" =>
                \/ risk_events'[e] = risk_events[e]
                \/ /\ sm_op' = "cleanup_old_data"
                   /\ risk_events'[e].status = "deleted"
       /\ \A e \in EventIds :
            risk_events[e].status = "deleted" => risk_events'[e] = risk_events[e]
       /\ (sm_op' = "log_risk_event" /\ <<risk_events, sm_op>>' # <<risk_events, sm_op>>)
            => \E n \in EventIds :
                  /\ risk_events[n].status = "absent"
                  /\ risk_events'[n].status = "present"
                  /\ \A e \in EventIds \ {n} : risk_events'[e] = risk_events[e]
       /\ sm_op' \notin {"log_risk_event", "cleanup_old_data"}
            => risk_events' = risk_events]_vars

\* a second event of the same session was logged a day after the first,
\* which is still there
C29_Witness ==
    /\ sm_op = "log_risk_event"
    /\ risk_events[1].status = "present"
    /\ risk_events[2].status = "present"
    /\ risk_events[1].session_id = risk_events[2].session_id
    /\ risk_events[1].severity # risk_events[2].severity
    /\ Day(risk_events[1].created_at) < Day(risk_events[2].created_at)

(***************************************************************************)
(* Properties of the engine: sessions, closes, loops (under Spec).         *)
(***************************************************************************)
\* the step in which session s is created in the store
CreatesSession(s) == sessions[s].status = "absent" /\ sessions'[s].status = "active"

\* C23: the engine owns at most one session at a time: a session is created
\* only when the engine is not running, it holds no session and no session
\* is active in the store; a start that finds the engine running creates no
\* session and no tasks.
C23_OneSessionAtATime ==
    [][\A s \in SessionIds :
         CreatesSession(s) =>
             /\ ~is_running
             /\ current_session = {}
             /\ \A o \in SessionIds : sessions[o].status # "active"]_vars

\* the step in which th begins an opportunity scan
BeginsScan(th) == thr[th].pc # "scan" /\ thr'[th].pc = "scan"
\* th is in the cooldown sleep of a graceful close
InCooldown(th) == thr[th].pc = "cooldown"

\* C27: a graceful close marks the trade closed and writes it with
\* update_trade only after its closing order was accepted, and then sleeps
\* the cooldown; a closing order that failed leaves the trade as it was; and
\* no opportunity scan begins while the cooldown of a close has not elapsed.
C27_GracefulCloseOrder ==
    [][\A th \in Threads :
         /\ (thr[th].pc = "gc_order" /\ thr'[th].pc # "gc_order") =>
               IF thr[th].ok /\ current_trade # {}
               THEN /\ current_trade' # {}
                    /\ \A r \in current_trade' :
                          r.status = "closed" /\ trades'[r.id].status = "closed"
                    /\ thr'[th].pc = "cooldown"
               ELSE current_trade' = current_trade /\ trades' = trades
         /\ thr'[th].pc = "cooldown" => thr[th].pc \in {"gc_order", "cooldown"}
         /\ BeginsScan(th) => \A o \in Threads \ {th} : ~InCooldown(o)]_vars

\* response i is a JSON object that has every key the engine reads
WellFormedDecision(i) ==
    /\ DecisionResponses[i].shape = "object"
    /\ DecisionKeys \subseteq DOMAIN DecisionResponses[i].obj
WellFormedEvaluation(i) ==
    /\ EvaluationResponses[i].shape = "object"
    /\ EvaluationKeys \subseteq DOMAIN EvaluationResponses[i].obj

\* C24: a response of the decision provider that is not JSON, or lacks a key
\* the engine reads, is treated as hold: the scan places no order for it,
\* and the monitoring tick goes to no close and no stop or target adjustment
\* for it and leaves the trade as it is.
C24_MalformedIsHold ==
    [][/\ \A th \in Threads :
            PlacesOpeningOrder(th) => WellFormedDecision(thr[th].dec)
       /\ thr["mon"].pc = "mon_eval" =>
            /\ thr'["mon"].pc \in {"gc_open", "mon_sl", "mon_tp"}
                  => WellFormedEvaluation(thr'["mon"].dec)
            /\ current_trade' = current_trade /\ trades' = trades]_vars

(***************************************************************************)
(* Properties of the engine driven by one caller (under SpecSteady and     *)
(* SpecFirst).                                                             *)
(***************************************************************************)
\* the step in which caller c enters stop_trading_session
EntersStop(c) ==
    thr[c].pc = "idle" /\ thr'[c].role \in {"stop_e", "stop_g", "stop_err"}
\* nothing of the engine but the position of c changes
OnlyMoves(c) ==
    /\ UNCHANGED <<is_running, current_session, current_trade, latest_news_data,
                   sessions, trades, news_pc, made_trades>>
    /\ \A o \in Threads \ {c} : thr'[o] = thr[o]

\* C22: stop_trading_session called while is_running is false goes straight
\* to its error return, suspended in no exchange call, and returns; neither
\* step changes is_running, current_session, current_trade, the two tasks
\* or the store.
C22_StopWhenNotRunning ==
    [][\A c \in Callers :
         /\ (EntersStop(c) /\ ~is_running) =>
               /\ thr'[c] = [IdleThread EXCEPT !.pc = "ret", !.role = "stop_err"]
               /\ OnlyMoves(c)
         /\ (thr[c].pc = "ret" /\ thr[c].role = "stop_err") =>
               /\ thr'[c] = IdleThread
               /\ OnlyMoves(c)]_vars

\* a stop call is at its error return while the engine still holds the
\* session an earlier stop failed to end, and a trade
C22_Witness ==
    \E c \in Callers :
        /\ thr[c].pc = "ret" /\ thr[c].role = "stop_err"
        /\ ~is_running
        /\ current_session # {} /\ current_trade # {}

\* a step of the news loop: a refresh, a refresh that failed, or its end
NewsStep ==
    /\ news_pc \in {"new", "sleep"}
    /\ news_pc' \in {"sleep", "dead"}
    /\ <<news_pc, latest_news_data>>' # <<news_pc, latest_news_data>>

\* C25: no step of the news loop, failed refresh or not, touches the
\* monitoring task or what it reads: its position, is_running, the session
\* and the trade are as before, so it ticks on as if the news loop were not
\* there; and while the engine runs a failed refresh leaves the news loop
\* sleeping, not ended.
C25_NewsNeverBlocksMonitoring ==
    [][NewsStep =>
         /\ thr' = thr
         /\ UNCHANGED <<is_running, current_session, current_trade, sessions, trades,
                        made_trades>>
         /\ is_running => news_pc' = "sleep"]_vars

\* the first refresh has failed (no news data) and the monitoring task is in
\* a tick, evaluating the active trade
C25_Witness ==
    /\ is_running
    /\ news_pc = "sleep" /\ latest_news_data = "empty"
    /\ thr["mon"].pc = "mon_eval"
    /\ current_trade # {} /\ CT.status = "active"

\* the monitoring task sleeps between two ticks while the engine runs and the
\* trade is active: where a tick that failed leaves it
BetweenTicks ==
    /\ is_running
    /\ thr["mon"].pc = "sleep"
    /\ current_trade # {} /\ CT.status = "active"
\* the monitoring task is in a tick, evaluating the trade
InTick == thr["mon"].pc = "mon_eval"

\* C26: a task ends only by cancellation or when is_running is false: a
\* tick in which a call failed leaves the monitoring task sleeping, a failed
\* refresh leaves the news task sleeping; and (under SpecFirstFair) a
\* monitoring task sleeping between ticks runs another tick unless the
\* engine is stopped or the trade is no longer active.
C26_LoopsSurviveFailures ==
    /\ [][/\ (thr["mon"].pc \notin {"dead", "none"} /\ thr'["mon"].pc = "dead")
               => (thr["mon"].pc = "cancelled" \/ ~is_running)
          /\ (news_pc \notin {"dead", "none"} /\ news_pc' = "dead")
               => (news_pc = "cancelled" \/ ~is_running)
          /\ (is_running /\ InTick /\ ~InTick')
               => thr'["mon"].pc \in {"sleep", "gc_open", "mon_sl", "mon_tp", "cancelled"}]_vars
    /\ BetweenTicks ~> (InTick \/ ~is_running \/ current_trade = {}
                          \/ (current_trade # {} /\ CT.status # "active"))

\* the monitoring task sleeps after a tick on the active trade (the trade
\* was placed by the scan of start, which has returned) and the news
\* refresh has failed as well
C26_Witness ==
    /\ BetweenTicks
    /\ thr["c1"].pc = "idle"
    /\ news_pc = "sleep" /\ latest_news_data = "empty"

\* C28: the row of the current trade has the status, stop_loss and
\* take_profit of the in-memory trade, in every reachable state: every
\* change of the in-memory trade is written in the step that makes it.
C28_TradePersisted ==
    current_trade # {} =>
        /\ trades[CT.id].status = CT.status
        /\ trades[CT.id].stop_loss = CT.stop_loss
        /\ trades[CT.id].take_profit = CT.take_profit

\* no call is in progress, the monitoring task sleeps, and the active trade
\* has had its stop loss and its take profit adjusted
C28_Witness ==
    /\ thr["c1"].pc = "idle" /\ thr["mon"].pc = "sleep"
    /\ current_trade # {}
    /\ CT.status = "active" /\ CT.stop_loss = {98} /\ CT.take_profit = {112}
    /\ trades[CT.id].stop_loss = {98} /\ trades[CT.id].take_profit = {112}

(***************************************************************************)
(* Escalation of failed emergency closes (under SpecEscalation).           *)
(***************************************************************************)
\* a critical risk event of the session and the trade t is in the store
CriticalEventFor(t) ==
    \E e \in EventIds :
        /\ risk_events[e].status = "present"
        /\ risk_events[e].severity = "critical"
        /\ risk_events[e].session_id = {trades[t].session_id}
        /\ risk_events[e].trade_id = {t}

\* C30: once the emergency close of a trade has failed three times in a row
\* a risk event of severity critical is in the store for the session and
\* the trade.
C30_ThreeFailuresEscalated ==
    \A t \in TradeIds : close_failures[t] >= 3 => CriticalEventFor(t)

(***************************************************************************)
(* The opportunity scan called on its own: one run of                      *)
(* _perform_initial_analysis on the engine as constructed, recorded in     *)
(* rm_op, rm_arg and rm_ret.                                               *)
(***************************************************************************)
\* what analyze_market_conditions answers to the scan: the two analyses of
\* the engine model, the fallback of the parser, sums on the threshold, sums
\* beyond both ends of [0,1], a null confidence and an object without one
ScanAnalyses ==
    Analyses \cup
    { [confidence |-> {5}, risk_level |-> "medium", volatility |-> "medium", trend |-> "neutral"],
      [confidence |-> {8}, risk_level |-> "high", volatility |-> "medium", trend |-> "neutral"],
      [confidence |-> {9}, risk_level |-> "low", volatility |-> "medium", trend |-> "bullish"],
      [confidence |-> {1}, risk_level |-> "high", volatility |-> "high", trend |-> "neutral"],
      [confidence |-> {12}, risk_level |-> "medium", volatility |-> "medium", trend |-> "neutral"],
      [confidence |-> {}, risk_level |-> "low", volatility |-> "medium", trend |-> "bullish"],
      [trend |-> "bearish"] }

\* A binary sum of decimal fractions can land rounding errors above or
\* below the decimal sum (0.8 - 0.2 is 0.6000000000000001): a float is
\* ordered as ScoreUnit * tenths + rounding.
MaxRounding == 1
Roundings == (0 - MaxRounding)..MaxRounding
ScoreUnit == 2 * MaxRounding + 1

\* whether _score_trading_opportunity adds to or subtracts from the confidence
adjusts(analysis) ==
    \/ GetOr(analysis, "risk_level", "none") \in {"low", "high"}
    \/ GetOr(analysis, "volatility", "none") = "high"
    \/ GetOr(analysis, "trend", "none") \in {"bullish", "bearish"}

\* the float _score_trading_opportunity returns when its sum rounds by r
float_score(analysis, r) ==
    LET b == base_score(analysis)
        s == ScoreUnit * (CHOOSE n \in b : TRUE) + (IF adjusts(analysis) THEN r ELSE 0)
    IN  IF b = {} THEN 0                         \* except: return 0.0
        ELSE Max(0, IF s <= ScoreUnit * 10 THEN s ELSE ScoreUnit * 10)

\* per pair an analysis and the rounding of its score, or {} when a call of
\* the iteration raised
ScanOutcomes ==
    [1..NumPairs -> {{}} \cup {{[analysis |-> a, rounding |-> r]} :
                               a \in ScanAnalyses, r \in Roundings}]

\* the score of pair i in the outcomes o
PairScore(o, i) ==
    LET x == CHOOSE x \in o[i] : TRUE
    IN  float_score(x.analysis, x.rounding)

\* the loop of a variant that leaves the loop at the first pair that raises
scan_loop_AbortsOnFailure(o) ==
    LET RECURSIVE loop(_)
        loop(i) ==
            IF i = 0 THEN [best_score |-> 0, best_opportunity |-> 0, tried |-> {}]
            ELSE LET p == loop(i - 1)
                 IN  IF \E j \in 1..(i - 1) : o[j] = {} THEN p
                     ELSE IF o[i] = {} THEN [p EXCEPT !.tried = @ \cup {i}]
                     ELSE IF PairScore(o, i) > p.best_score
                     THEN [best_score |-> PairScore(o, i), best_opportunity |-> i,
                           tried |-> p.tried \cup {i}]
                     ELSE [p EXCEPT !.tried = @ \cup {i}]
    IN  loop(NumPairs)

\* the loop over allowed_pairs: best_score, best_opportunity (0 for None)
\* and the pairs whose iteration began
scan_loop(o) ==
    LET RECURSIVE loop(_)
        loop(i) ==
            IF i = 0 THEN [best_score |-> 0, best_opportunity |-> 0, tried |-> {}]
            ELSE LET p == loop(i - 1)
                 IN  IF o[i] = {} THEN [p EXCEPT !.tried = @ \cup {i}]   \* continue
                     ELSE IF PairScore(o, i) > p.best_score
                     THEN [best_score |-> PairScore(o, i), best_opportunity |-> i,
                           tried |-> p.tried \cup {i}]
                     ELSE [p EXCEPT !.tried = @ \cup {i}]
    IN  loop(NumPairs)

\* one run of _perform_initial_analysis up to the decision request of
\* _execute_trading_decision: the pair make_trading_decision is asked about
\* (0 when it is not asked); get_current_positions may raise before it
call_perform_initial_analysis ==
    /\ rm_op = "init"
    /\ \E b \in Balances, o \in ScanOutcomes, positions \in BOOLEAN :
        LET l == scan_loop(o)
            asked == /\ b >= min_trading_balance
                     /\ l.best_opportunity # 0
                     /\ l.best_score > ScoreUnit * min_opportunity_score
                     /\ positions
        IN  /\ rm_op' = "perform_initial_analysis"
            /\ rm_arg' = {[available_balance |-> b, outcomes |-> o]}
            /\ rm_ret' = {[requested |-> IF asked THEN l.best_opportunity ELSE 0,
                           tried |-> IF b >= min_trading_balance THEN l.tried ELSE {}]}
    /\ UNCHANGED <<riskVars, now>>

ScanNext ==
    call_perform_initial_analysis /\ UNCHANGED <<engineVars, storeEnv>>

SpecScan == Init /\ [][ScanNext]_vars

\* C31: a scan asks for a trade decision about at most one pair; the pair
\* asked about was analysed without error, no analysed pair scores higher,
\* its score is at or above the threshold 0.6, every score lies in [0,1],
\* and with enough balance every configured pair is tried, whichever pairs
\* failed.
C31_ScanPicksBest ==
    rm_op = "perform_initial_analysis" =>
        \A arg \in rm_arg, ret \in rm_ret :
            LET o == arg.outcomes
                analysed == {i \in 1..NumPairs : o[i] # {}}
            IN  /\ \A i \in analysed : PairScore(o, i) \in 0..(ScoreUnit * 10)
                /\ ret.requested \in 0..NumPairs
                /\ ret.requested # 0 =>
                       /\ ret.requested \in analysed
                       /\ \A j \in analysed :
                              PairScore(o, j) <= PairScore(o, ret.requested)
                       /\ PairScore(o, ret.requested) >= ScoreUnit * min_opportunity_score
                /\ arg.available_balance >= min_trading_balance =>
                       ret.tried = 1..NumPairs

\* a scan whose first pair failed asks about a later pair
C31_Witness ==
    /\ rm_op = "perform_initial_analysis"
    /\ \E arg \in rm_arg, ret \in rm_ret :
           /\ arg.outcomes[1] = {}
           /\ ret.requested > 1

(***************************************************************************)
(* The engine and the daily metrics of the RiskManager (under Spec, where  *)
(* the daily limits are never reset).                                      *)
(***************************************************************************)
\* the trades the engine has closed
ClosedTrades == {t \in TradeIds : trades[t].status = "closed"}

\* C32: every trade the engine has closed has been reported to
\* update_daily_metrics, so daily_trades is at least the number of trades
\* closed since the last reset of the daily limits.
C32_TradesReported ==
    Cardinality(ClosedTrades) <= daily_trades

(***************************************************************************)
(* RiskManager.validate_trade_parameters called on its own, on a manager   *)
(* whose gate is closed by trigger_emergency_stop and opened again by      *)
(* reset_daily_limits.                                                     *)
(***************************************************************************)
\* RiskManager.validate_trade_parameters: valid and the checks that failed
validate_trade_parameters(quantity, entry_price, stop_loss, side, position_size_percent, available_balance) ==
    LET gate == can_start_new_trade
        position_validation == validate_position_size(available_balance,
                                                      position_size_percent)
        \* "if stop_loss:" skips the check for None and for 0; the division
        \* by an entry price of 0 raises inside the check
        stop_checked == stop_loss # {} /\ stop_loss # {0}
        stop_ok == IF entry_price = 0 THEN FALSE
                   ELSE check_stop_loss_requirements(entry_price, stop_loss, side).valid
        errors == (IF gate THEN {} ELSE {"gate"})
                  \cup (IF position_validation.valid THEN {} ELSE {"position_size"})
                  \cup (IF stop_checked /\ ~stop_ok THEN {"stop_loss"} ELSE {})
                  \cup (IF quantity <= 0 THEN {"quantity"} ELSE {})
                  \cup (IF entry_price <= 0 THEN {"entry_price"} ELSE {})
    IN  [valid |-> errors = {}, errors |-> errors]

\* the arguments offered to validate_trade_parameters
ValidateArgs ==
    [quantity : {0, 1}, entry_price : {0, 100}, stop_loss : {{}, {0}, {50}, {97}},
     side : {"buy", "sell"}, position_size_percent : {10, 30},
     available_balance : {50, 1000}]

\* the call of validate_trade_parameters
call_validate_trade_parameters ==
    \E a \in ValidateArgs :
        /\ rm_op' = "validate_trade_parameters"
        /\ rm_arg' = {a}
        /\ rm_ret' = {validate_trade_parameters(a.quantity, a.entry_price, a.stop_loss,
                                                a.side, a.position_size_percent,
                                                a.available_balance)}
        /\ UNCHANGED <<riskVars, now>>

ValidateNext ==
    \/ call_validate_trade_parameters /\ UNCHANGED <<engineVars, storeEnv>>
    \/ trigger_emergency_stop /\ UNCHANGED <<engineVars, storeEnv>>
    \/ reset_daily_limits /\ UNCHANGED <<engineVars, storeEnv>>

SpecValidate == Init /\ [][ValidateNext]_vars

\* C33: validate_trade_parameters answers valid = false whenever the stop
\* loss is missing (None or 0), and answers valid = true only if
\* can_start_new_trade, validate_position_size and
\* check_stop_loss_requirements accept and quantity and entry price are
\* positive.
C33_StopLossMandatory ==
    rm_op = "validate_trade_parameters" =>
        \A arg \in rm_arg, ret \in rm_ret :
            /\ arg.stop_loss \in {{}, {0}} => ~ret.valid
            /\ ret.valid =>
                   /\ can_start_new_trade
                   /\ validate_position_size(arg.available_balance,
                                             arg.position_size_percent).valid
                   /\ arg.quantity > 0 /\ arg.entry_price > 0
                   /\ check_stop_loss_requirements(arg.entry_price, arg.stop_loss,
                                                   arg.side).valid

(***************************************************************************)
(* The first session of an engine whose store can refuse an insert.        *)
(***************************************************************************)
\* _place_trade when save_trade raises (sqlite3 cannot bind a value of the
\* decision, such as a reasoning that is a JSON array, or the database
\* fails): the trade dict is already in current_trade, no row is inserted,
\* and the except branch of _place_trade only logs
place_trade_unsaved(th) ==
    /\ Runnable(th)
    /\ thr[th].pc = "scan_order"
    /\ thr[th].ok
    /\ current_session # {}
    /\ {"reasoning", "confidence"} \subseteq DOMAIN Decisions[thr[th].dec]
    /\ Leave(th)
    /\ LET d == Decisions[thr[th].dec]
           r == [id |-> made_trades + 1,
                 session_id |-> CHOOSE s \in current_session : TRUE,
                 side |-> IF d.action = "buy" THEN "Buy" ELSE "Sell",
                 status |-> "active",
                 stop_loss |-> Get(d, "stop_loss"),
                 take_profit |-> Get(d, "take_profit"),
                 emergency_close |-> FALSE,
                 created_at |-> now]
       IN  /\ current_trade' = {r}
           /\ made_trades' = made_trades + 1
    /\ UNCHANGED <<is_running, current_session, latest_news_data, sessions,
                   trades, news_pc>>

UnsavedNext ==
    \/ FirstNext
    \/ \E th \in OneThreads : place_trade_unsaved(th) /\ UNCHANGED <<allRiskVars, storeEnv>>

SpecUnsaved == Init /\ [][UnsavedNext]_vars

\* C34: the engine changes the dict of the current trade, and so issues
\* update_trade for it, only when the trade has its row: the insert of a
\* trade precedes every update of it.
C34_InsertBeforeUpdate ==
    [][(/\ current_trade # {} /\ current_trade' # {}
        /\ current_trade' # current_trade
        /\ (CHOOSE r \in current_trade' : TRUE).id = CT.id)
       => trades[CT.id].status \notin Gone]_vars

(***************************************************************************)
(* is_running and the session of the engine (under SpecFirst).             *)
(***************************************************************************)
\* no start_trading_session or stop_trading_session call is in progress
NoCallInProgress == \A c \in OneCaller : thr[c].pc = "idle"

\* C35: whenever no start or stop call is in progress, is_running is true
\* exactly when current_session is set and that session is active in the
\* store.
C35_RunningIffSessionActive ==
    NoCallInProgress =>
        (is_running <=> /\ current_session # {}
                        /\ \A s \in current_session : sessions[s].status = "active")

(***************************************************************************)
(* cleanup_old_data over the three tables: sessions are created, trades    *)
(* saved and risk events logged over several days.                         *)
(***************************************************************************)
CleanupNext ==
    \/ EventsNext
    \/ sm_save_trade /\ UNCHANGED <<allRiskVars, fieldVars, thr, news_pc, made_trades, risk_events, close_failures, orch>>

SpecCleanup == Init /\ [][CleanupNext]_vars

\* the ids of the table whose row was created before day cutoff
CreatedBefore(table, cutoff) ==
    {i \in DOMAIN table : table[i].status \notin Gone /\ Day(table[i].created_at) < cutoff}

\* the step removes from the table (old, new after the step) the rows
\* created before day cutoff and leaves every other row as it is
RemovesExactly(old, new, cutoff) ==
    \A i \in DOMAIN old :
        IF i \in CreatedBefore(old, cutoff) THEN new[i].status = "deleted"
        ELSE new[i] = old[i]

\* C36: a run of cleanup_old_data deletes exactly the trades, sessions and
\* risk events created before its cutoff, and after it every remaining trade
\* refers to a session that still has its row.
C36_CleanupKeepsIntegrity ==
    [][sm_op' = "cleanup_old_data" =>
        /\ \E d \in RetentionDays :
              /\ RemovesExactly(trades, trades', Day(now) - d)
              /\ RemovesExactly(sessions, sessions', Day(now) - d)
              /\ RemovesExactly(risk_events, risk_events', Day(now) - d)
        /\ \A t \in TradeIds :
              trades'[t].status \notin Gone =>
                  sessions'[trades'[t].session_id].status \notin Gone]_vars

(***************************************************************************)
(* monitor_position_risk called on managers of every configuration of the  *)
(* two loss limits: one call on the manager as constructed, recorded in    *)
(* rm_op, rm_arg and rm_ret.                                               *)
(***************************************************************************)
\* values of emergency_stop_loss_percent and max_position_loss_percent:
\* every pair is offered, also mis-ordered pairs and limits below the
\* warning level 3
ConfiguredLimits == {0, 1, 2, 3, 5, 15, 20}

call_monitor_position_risk_for ==
    /\ rm_op = "init"
    /\ \E em \in ConfiguredLimits, ml \in ConfiguredLimits,
          c \in Prices, e \in EntryPrices, sd \in Sides :
        /\ rm_op' = "monitor_position_risk"
        /\ rm_arg' = {[emergency_stop_loss_percent |-> em,
                       max_position_loss_percent |-> ml,
                       current_price |-> c, entry_price |-> e, side |-> sd]}
        /\ rm_ret' = {monitor_position_risk_for(em, ml, c, e, sd)}
    /\ UNCHANGED <<riskVars, now>>

LadderNext ==
    call_monitor_position_risk_for /\ UNCHANGED <<engineVars, storeEnv>>

SpecLadder == Init /\ [][LadderNext]_vars

\* hold < monitor_closely < close < emergency_close
Severity(action) ==
    CASE action = "emergency_close" -> 3
      [] action = "close" -> 2
      [] action = "monitor_closely" -> 1
      [] OTHER -> 0

\* C37: for every configuration of the two limits, a position whose PnL is
\* at most the PnL of the recorded call, itself at most 0, gets an action at
\* least as severe as the recorded one.
C37_LadderMonotone ==
    rm_op = "monitor_position_risk" =>
        \A arg \in rm_arg, ret \in rm_ret :
            LET d2 == directional_diff(arg.current_price, arg.entry_price, arg.side)
            IN  d2 <= 0 =>
                \A c \in Prices, e \in EntryPrices, sd \in Sides :
                    LET d1 == directional_diff(c, e, sd)
                    IN  d1 * arg.entry_price <= d2 * e =>
                        Severity(monitor_position_risk_for(
                                     arg.emergency_stop_loss_percent,
                                     arg.max_position_loss_percent, c, e, sd).action)
                          >= Severity(ret.action)

\* a manager whose emergency limit lies below its maximum position loss
\* answers emergency_close to a loss that has not reached the maximum
C37_Witness ==
    /\ rm_op = "monitor_position_risk"
    /\ \E arg \in rm_arg, ret \in rm_ret :
           /\ arg.emergency_stop_loss_percent < arg.max_position_loss_percent
           /\ ret.action = "emergency_close"
           /\ directional_diff(arg.current_price, arg.entry_price, arg.side) * 100
                > -arg.max_position_loss_percent * arg.entry_price

\* ---------------------------------------------------------------------------
\* The ClaudeOrchestrator: its loop asks the claude CLI to open a trade when it
\* has none and to monitor the one it has, and reads the answers by substring
\* search.  Answers are strings; the searches are done character by character.

\* str.lower() on one character
LowerChar(c) ==
    CASE c = "A" -> "a" [] c = "B" -> "b" [] c = "C" -> "c" [] c = "D" -> "d"
      [] c = "E" -> "e" [] c = "F" -> "f" [] c = "G" -> "g" [] c = "H" -> "h"
      [] c = "I" -> "i" [] c = "J" -> "j" [] c = "K" -> "k" [] c = "L" -> "l"
      [] c = "M" -> "m" [] c = "N" -> "n" [] c = "O" -> "o" [] c = "P" -> "p"
      [] c = "Q" -> "q" [] c = "R" -> "r" [] c = "S" -> "s" [] c = "T" -> "t"
      [] c = "U" -> "u" [] c = "V" -> "v" [] c = "W" -> "w" [] c = "X" -> "x"
      [] c = "Y" -> "y" [] c = "Z" -> "z" [] OTHER -> c

RECURSIVE lower(_)
\* response.lower()
lower(s) ==
    IF s = "" THEN "" ELSE LowerChar(SubSeq(s, 1, 1)) \o lower(SubSeq(s, 2, Len(s)))

\* Python's `k in s` on strings
Contains(s, k) ==
    \E i \in 1..(Len(s) - Len(k) + 1) : SubSeq(s, i, i + Len(k) - 1) = k

RECURSIVE strip(_)
\* response.strip(), for the blanks an answer can begin or end with
strip(s) ==
    IF s = "" THEN ""
    ELSE IF SubSeq(s, 1, 1) = " " THEN strip(SubSeq(s, 2, Len(s)))
    ELSE IF SubSeq(s, Len(s), Len(s)) = " " THEN strip(SubSeq(s, 1, Len(s) - 1))
    ELSE s

\* the confirmations _is_trade_completed accepts as proof of an execution
execution_confirmations ==
    {"order executed", "position closed successfully", "trade executed", "order filled",
     "successfully closed", "execution confirmed", "order completed",
     "position liquidated", "trade closed successfully", "exit executed"}

\* the decision _is_trade_completed reads from the lower-cased response:
\* hold is looked for first, then close, then exit
decision(response_lower) ==
    IF Contains(response_lower, "hold") \/ Contains(response_lower, "holding") THEN "hold"
    ELSE IF Contains(response_lower, "close") \/ Contains(response_lower, "closing")
        THEN "close"
    ELSE IF Contains(response_lower, "exit") \/ Contains(response_lower, "exiting")
        THEN "exit"
    ELSE "unknown"

\* _is_trade_completed with the hold decision ranked after close and exit
is_trade_completed_CloseFirst(response) ==
    IF response = "" THEN FALSE
    ELSE LET response_lower == lower(response)
         IN  /\ \/ Contains(response_lower, "close") \/ Contains(response_lower, "closing")
                \/ Contains(response_lower, "exit") \/ Contains(response_lower, "exiting")
             /\ \E confirmation \in execution_confirmations :
                    Contains(response_lower, confirmation)

\* _is_trade_completed(response): an empty response, a hold decision and an
\* unknown decision are not a completion, and a close or exit decision is
\* one only with an execution confirmation
is_trade_completed(response) ==
    IF response = "" THEN FALSE
    ELSE LET response_lower == lower(response)
         IN  IF decision(response_lower) = "hold" THEN FALSE
             ELSE IF decision(response_lower) \in {"close", "exit"}
                 THEN \E confirmation \in execution_confirmations :
                          Contains(response_lower, confirmation)
             ELSE FALSE

success_indicators ==
    {"trade is now active", "position entry", "executed", "entry price", "stop loss",
     "take profit", "position size", "order placed", "trade opened", "position opened",
     "buy order", "sell order", "long position", "short position", "leverage", "margin",
     "filled", "opened", "active", "initiated", "started", "placed"}

strong_confirmations ==
    {"order executed", "trade executed", "position opened successfully", "order filled",
     "successfully opened", "execution confirmed", "trade initiated successfully",
     "position active"}

\* the words that make a response of fewer than 50 characters a success
brief_words == {"ok", "done", "yes", "executed", "filled", "opened"}
BriefLength == 50

\* _parse_trade_initiation(response)
parse_trade_initiation(response) ==
    IF response = "" THEN FALSE
    ELSE LET response_lower == lower(response)
         IN  IF \E confirmation \in strong_confirmations :
                    Contains(response_lower, confirmation)
             THEN TRUE
             ELSE IF /\ Len(strip(response)) < BriefLength
                     /\ \E word \in brief_words : Contains(response_lower, word)
             THEN TRUE
             ELSE Cardinality({indicator \in success_indicators :
                                   Contains(response_lower, indicator)}) >= 1

\* the phrases an answer to the monitoring prompt is made of
Phrases ==
    {"HOLD", "threshold", "close", "closing", "exit", "Order executed",
     "position closed successfully", "exit executed", "profit"}
MaxPhrases == 2

RECURSIVE PhraseSeqs(_)
PhraseSeqs(n) ==
    IF n = 0 THEN {<<>>}
    ELSE PhraseSeqs(n - 1) \cup
         {Append(s, p) : s \in {q \in PhraseSeqs(n - 1) : Len(q) = n - 1}, p \in Phrases}

\* the answers to the monitoring prompt, each as the sequence of its phrases;
\* the empty one stands for no answer at all (None or "")
MonitoringResults == PhraseSeqs(MaxPhrases)

\* the answers to the trading prompt
InitiationResults ==
    {<<>>, <<"ok">>, <<"no setup found">>, <<"Order executed">>, <<"LONG position", "opened">>,
     <<"the market looks okay but there is no setup worth a trade now">>}

RECURSIVE Text(_)
\* the text of an answer: its phrases separated by blanks
Text(phrases) ==
    IF phrases = <<>> THEN ""
    ELSE IF Len(phrases) = 1 THEN phrases[1]
    ELSE phrases[1] \o " " \o Text(Tail(phrases))

MaxOrchTrades == 2

\* the trades opened so far
Initiated(o) == Len(o.trade_history) + Cardinality(o.current_trade)

\* start_24_7_trading up to the first test of its while loop
orch_start ==
    /\ orch.pc \in {"idle", "done"}
    /\ orch' = [orch EXCEPT !.pc = "cycle", !.is_running = TRUE]

\* _initiate_new_trade: a parsed answer makes the current trade; the id comes
\* from the auditor, whose failure is caught with the trade already set
initiate_new_trade(o, result, logged) ==
    IF parse_trade_initiation(Text(result))
    THEN [o EXCEPT !.current_trade = {[initiated_at |-> Initiated(o) + 1, status |-> "active"]},
                   !.current_trade_id = IF logged THEN {Initiated(o) + 1} ELSE {}]
    ELSE o

\* _complete_current_trade with the current trade left in place after the append
complete_current_trade_KeepsCurrent(o, logged) ==
    IF o.current_trade = {} THEN o
    ELSE LET trade == CHOOSE t \in o.current_trade : TRUE
             completed == [trade EXCEPT !.status = "completed"]
         IN  IF o.current_trade_id # {} /\ ~logged
             THEN [o EXCEPT !.current_trade = {completed}]
             ELSE [o EXCEPT !.trade_history = Append(@, completed)]

\* _complete_current_trade: mark the trade completed, log it, append a copy to
\* the history, clear current_trade and current_trade_id.  A failure of the
\* auditor leaves the function after the mark.
complete_current_trade(o, logged) ==
    IF o.current_trade = {} THEN o
    ELSE LET trade == CHOOSE t \in o.current_trade : TRUE
             completed == [trade EXCEPT !.status = "completed"]
         IN  IF o.current_trade_id # {} /\ ~logged
             THEN [o EXCEPT !.current_trade = {completed}]
             ELSE [o EXCEPT !.trade_history = Append(@, completed),
                            !.current_trade = {}, !.current_trade_id = {}]

\* _monitor_current_trade: no answer changes nothing; an answer is logged as
\* an update (a failure ends the function) and then tested for completion
orch_monitor_current_trade(o, result, update_logged, logged) ==
    IF o.current_trade = {} \/ result = <<>> THEN o
    ELSE IF o.current_trade_id # {} /\ ~update_logged THEN o
    ELSE IF is_trade_completed(Text(result)) THEN complete_current_trade(o, logged)
    ELSE o

\* one cycle of the loop with no current trade
orch_initiate ==
    /\ orch.pc = "cycle"
    /\ orch.current_trade = {}
    /\ \E result \in InitiationResults, logged \in BOOLEAN :
        /\ Initiated(orch) < MaxOrchTrades \/ ~parse_trade_initiation(Text(result))
        /\ orch' = [initiate_new_trade(orch, result, logged)
                        EXCEPT !.pc = "sleep", !.result = result, !.did = "initiate"]

\* one cycle of the loop with a current trade
orch_monitor ==
    /\ orch.pc = "cycle"
    /\ orch.current_trade # {}
    /\ \E result \in MonitoringResults, update_logged \in BOOLEAN, logged \in BOOLEAN :
        orch' = [orch_monitor_current_trade(orch, result, update_logged, logged)
                     EXCEPT !.pc = "sleep", !.result = result, !.did = "monitor"]

\* the sleep ends and the while loop tests is_running
orch_wake ==
    /\ orch.pc = "sleep"
    /\ orch' = [orch EXCEPT !.pc = IF orch.is_running THEN "cycle" ELSE "done",
                            !.result = <<>>, !.did = "none"]

\* the sleeping task is cancelled or interrupted: the finally clause runs
orch_interrupted ==
    /\ orch.pc = "sleep"
    /\ orch' = [orch EXCEPT !.pc = "done", !.is_running = FALSE,
                            !.result = <<>>, !.did = "none"]

\* stop()
orch_stop ==
    /\ orch.is_running
    /\ orch' = [orch EXCEPT !.is_running = FALSE]

OrchNext ==
    \/ orch_start /\ UNCHANGED <<allRiskVars, engineVars, risk_events, sm_op, sm_arg, sm_ret, ended_calls, close_failures>>
    \/ orch_initiate /\ UNCHANGED <<allRiskVars, engineVars, risk_events, sm_op, sm_arg, sm_ret, ended_calls, close_failures>>
    \/ orch_monitor /\ UNCHANGED <<allRiskVars, engineVars, risk_events, sm_op, sm_arg, sm_ret, ended_calls, close_failures>>
    \/ orch_wake /\ UNCHANGED <<allRiskVars, engineVars, risk_events, sm_op, sm_arg, sm_ret, ended_calls, close_failures>>
    \/ orch_interrupted /\ UNCHANGED <<allRiskVars, engineVars, risk_events, sm_op, sm_arg, sm_ret, ended_calls, close_failures>>
    \/ orch_stop /\ UNCHANGED <<allRiskVars, engineVars, risk_events, sm_op, sm_arg, sm_ret, ended_calls, close_failures>>

SpecOrchestrator == Init /\ [][OrchNext]_vars

\* the phrases that carry each of the three things _is_trade_completed looks for
HoldPhrases == {"HOLD", "threshold"}
CloseOrExitPhrases == {"close", "closing", "exit", "position closed successfully", "exit executed"}
ConfirmationPhrases == {"Order executed", "position closed successfully", "exit executed"}
Expresses(result, phrases) == \E i \in 1..Len(result) : result[i] \in phrases

\* a cycle of the loop that monitored the current trade
MonitoringStep == orch.pc = "cycle" /\ orch'.did = "monitor"

\* C38: _is_trade_completed is true exactly for an answer that expresses a
\* close or exit decision, does not express hold and carries an execution
\* confirmation; a hold decision, a close without confirmation and an empty
\* answer give false, and after a monitoring cycle whose answer gives false
\* the current trade, its id and the history are what they were.
C38_StrictVerification ==
    [][MonitoringStep =>
        LET result == orch'.result
            completed == is_trade_completed(Text(result))
        IN  /\ completed <=> /\ Expresses(result, CloseOrExitPhrases)
                             /\ ~Expresses(result, HoldPhrases)
                             /\ Expresses(result, ConfirmationPhrases)
            /\ Expresses(result, HoldPhrases) => ~completed
            /\ ~Expresses(result, ConfirmationPhrases) => ~completed
            /\ result = <<>> => ~completed
            /\ ~completed => /\ orch'.current_trade = orch.current_trade
                             /\ orch'.current_trade # {}
                             /\ orch'.current_trade_id = orch.current_trade_id
                             /\ orch'.trade_history = orch.trade_history]_vars

\* a monitoring cycle got a confirmed close and the trade went to the history
C38_Witness ==
    /\ orch.did = "monitor"
    /\ orch.result = <<"closing", "Order executed">>
    /\ orch.current_trade = {}
    /\ Len(orch.trade_history) = 1

\* a cycle of the loop, from the branch to the sleep
CycleStep == orch.pc = "cycle" /\ orch'.pc = "sleep"

\* the trades of the orchestrator: those of the history and the current one
InitiatedAts(o) ==
    {o.trade_history[i].initiated_at : i \in 1..Len(o.trade_history)}
        \cup {t.initiated_at : t \in o.current_trade}

\* C39: a cycle of start_24_7_trading either initiates, and then there was no
\* current trade, or monitors, and then there was one; the history changes
\* only by the append of the completed current trade, with current_trade and
\* current_trade_id cleared by the same step, so that it never gets shorter,
\* holds no trade twice and never holds the current trade; a trade becomes
\* current only when there was none.
C39_OneTradeAtATime ==
    [][/\ CycleStep =>
            \/ orch'.did = "initiate" /\ orch.current_trade = {}
            \/ orch'.did = "monitor" /\ orch.current_trade # {}
       /\ Len(orch'.trade_history) >= Len(orch.trade_history)
       /\ orch'.trade_history # orch.trade_history =>
            /\ CycleStep /\ orch'.did = "monitor"
            /\ \E trade \in orch.current_trade :
                orch'.trade_history =
                    Append(orch.trade_history, [trade EXCEPT !.status = "completed"])
            /\ orch'.current_trade = {}
            /\ orch'.current_trade_id = {}
       /\ (orch'.current_trade # {} /\ orch'.current_trade # orch.current_trade) =>
            \/ orch.current_trade = {} /\ CycleStep /\ orch'.did = "initiate"
            \/ /\ orch.current_trade # {} /\ CycleStep /\ orch'.did = "monitor"
               /\ InitiatedAts(orch') = InitiatedAts(orch)
       /\ Cardinality(InitiatedAts(orch')) = Initiated(orch')]_vars

\* two trades have been completed, one after the other
C39_Witness ==
    /\ Len(orch.trade_history) = 2
    /\ orch.current_trade = {}
    /\ orch.current_trade_id = {}
    /\ orch.did = "monitor"
====
